---------------------------- MODULE Spec2Model ----------------------------
(***************************************************************************)
(* A state-machine model of the spatial reasoning core of the TDW client   *)
(* library: the OccupancyMap add-on (occupancy_map.py) and the procedural  *)
(* object arranger (proc_gen_object_arranger.py).                          *)
(*                                                                         *)
(* Lengths are integers (one unit is one model length unit); the floating  *)
(* point accumulation of the source (x += cell_size) is modelled exactly.  *)
(* The lengths of the arranger are in hundredths of the source's unit.     *)
(***************************************************************************)
EXTENDS Integers, Sequences, FiniteSets, TLC

(***************************************************************************)
(* Bounds of the model.                                                    *)
(***************************************************************************)
\* The extents of the scene bounds along x and along z the host can report.
SceneExtentsX == {0, 2, 5}
SceneExtentsZ == {0, 2}
\* Largest number of probed cells whose probes report something else than
\* "floor hit, no object".
MaxObstacles == 2
\* Largest number of probe frames missing from a response batch.
MaxMissing == 1
\* The user code calls communicate once this many items (probe lattices,
\* position markers, hide commands) are queued.
MaxQueued == 2

(***************************************************************************)
(* Program constants.                                                      *)
(***************************************************************************)
\* cast_id = idx + idz * 10000
IdBase == 10000

\* Cell classifications of the occupancy map.
FREE == 0
OCCUPIED == 1
OUT_OF_BOUNDS == -1

\* Python's None for self.occupancy_map and self.scene_bounds.
None == << >>

VARIABLES
    \* ---- OccupancyMap (occupancy_map.py) ----
    om_initialized,      \* AddOn.initialized
    scene_bounds,        \* self.scene_bounds: None or [x_min, x_max, z_min, z_max]
    occupancy_map,       \* self.occupancy_map: None or grid[i][j]
    cell_size,           \* self._cell_size
    occupancy_map_size,  \* self._occupancy_map_size
    om_commands,         \* self.commands: the commands queued for the next communicate
    om_raised,           \* the exception the last call let escape ("none" if it returned)
    om_build,            \* history: hit_env and hit_obj as decoded by the last build, and
                         \* the exception that ended it ("none" if it completed)
    om_last,             \* history: the last of communicate and generate called on
                         \* the add-on
    om_ret,              \* the last get_occupancy_position, show or hide call made since
                         \* then, with the indices and the value of get_occupancy_position
    om_batch             \* history: the raycast ids of the frames of the last batch, and
                         \* whether a grid existed when the batch arrived

VARIABLES
    \* ---- ProcGenObjectArranger (proc_gen_object_arranger.py) ----
    pg_initialized,      \* AddOn.initialized
    pg_scene_bounds,     \* self.scene_bounds: None or [rooms |-> the region bounds]
    pg_commands,         \* self.commands
    pg_next_id,          \* the next id Controller.get_unique_id() hands out
    pg_pc,               \* the position of the call under way ("idle" between calls)
    pg_lat,              \* the locals of the get_lateral_arrangement call under way
    pg_vert,             \* the locals of the get_vertical_arrangement call under way
    pg_pack,             \* the locals of the _get_rectangular_arrangement call under way
    pg_ret,              \* the value the last finished call returned
    pg_raised,           \* the exception the last call let escape ("none" if none)
    pg_last,             \* history: the last operation called on the add-on
    pg_hist              \* history: the arguments of the last vertical call and the
                         \* categories the last lateral call attempted, in order

VARIABLES
    \* ---- OccupancyMap with its lengths as binary64 floats ----
    fp_scene_bounds,     \* self.scene_bounds: None or [x_min, x_max, z_min, z_max]
    fp_cell_size,        \* self._cell_size
    fp_size,             \* self._occupancy_map_size
    fp_shape,            \* None or the shape of self.occupancy_map
    fp_ret               \* None or the indices and the value of the last
                         \* get_occupancy_position call

VARIABLES
    \* ---- ContainerManager (container_manager.py) ----
    cm_initialized,          \* AddOn.initialized
    cm_commands,             \* AddOn.commands
    cm_getting_model_names,  \* self._getting_model_names
    cm_trigger_ids,          \* TriggerCollisionManager.trigger_ids: trigger id -> object id
    cm_tags,                 \* self._tags: trigger id -> tag
    cm_collisions,           \* TriggerCollisionManager.collisions: those of this step
    cm_events,               \* self.events: container id -> list of containment events
    cm_last                  \* history: the last operation called on the add-on

omvars == << om_initialized, scene_bounds, occupancy_map, cell_size,
             occupancy_map_size, om_commands, om_raised, om_build, om_last, om_ret,
             om_batch >>

pgvars == << pg_initialized, pg_scene_bounds, pg_commands, pg_next_id, pg_pc, pg_lat,
             pg_vert, pg_pack, pg_ret, pg_raised, pg_last, pg_hist >>

fpvars == << fp_scene_bounds, fp_cell_size, fp_size, fp_shape, fp_ret >>

cmvars == << cm_initialized, cm_commands, cm_getting_model_names, cm_trigger_ids,
             cm_tags, cm_collisions, cm_events, cm_last >>

vars == << omvars, pgvars, fpvars, cmvars >>

\* What an operation of one add-on leaves alone: the other add-ons.
notmap == << pgvars, fpvars, cmvars >>
notarr == << omvars, fpvars, cmvars >>
notfp == << omvars, pgvars, cmvars >>
notcm == << omvars, pgvars, fpvars >>

(***************************************************************************)
(* Helpers on sequences and sets.                                          *)
(***************************************************************************)
Range(s) == { s[k] : k \in DOMAIN s }

Min2(a, b) == IF a < b THEN a ELSE b

\* The subsets of S (a set of integers) with at most k elements.
RECURSIVE KSubsets(_, _)
KSubsets(S, k) ==
    IF k = 0 THEN { {} }
    ELSE { {} } \cup UNION { { T \cup {x} : T \in KSubsets({ y \in S : y > x }, k - 1) } : x \in S }

(***************************************************************************)
(* OccupancyMap.generate: the probe lattice.                               *)
(***************************************************************************)
\* Number of iterations of "while a < b: ...; a += step".
RECURSIVE WhileCount(_, _, _)
WhileCount(a, b, step) == IF a < b THEN 1 + WhileCount(a + step, b, step) ELSE 0

\* Mutant: the two indices are exchanged in the identifier.
CastId_Swapped(idx, idz) == idz + (idx * IdBase)

\* cast_id = idx + (idz * 10000)
CastId(idx, idz) == idx + (idz * IdBase)

\* The two commands generate emits for lattice cell (idx, idz).
ProbeCommands(sb, cs, idx, idz) ==
    << [type |-> "send_overlap_sphere", id |-> CastId(idx, idz),
        x |-> sb.x_min + idx * cs, z |-> sb.z_min + idz * cs],
       [type |-> "send_raycast", id |-> CastId(idx, idz),
        x |-> sb.x_min + idx * cs, z |-> sb.z_min + idz * cs] >>

\* The inner loop over z for one x, from cell idz on.
RECURSIVE LatticeColumn(_, _, _, _, _)
LatticeColumn(sb, cs, idx, idz, nz) ==
    IF idz >= nz THEN << >>
    ELSE ProbeCommands(sb, cs, idx, idz) \o LatticeColumn(sb, cs, idx, idz + 1, nz)

\* The outer loop over x, from cell idx on.
RECURSIVE LatticeCommands(_, _, _, _, _)
LatticeCommands(sb, cs, idx, nx, nz) ==
    IF idx >= nx THEN << >>
    ELSE LatticeColumn(sb, cs, idx, 0, nz) \o LatticeCommands(sb, cs, idx + 1, nx, nz)

\* Mutant: each loop runs its body at least once.
LatticeSize_AtLeastOnce(sb, cs) ==
    LET nx == WhileCount(sb.x_min, sb.x_max, cs)
        nz == WhileCount(sb.z_min, sb.z_max, cs)
    IN  << IF nx = 0 THEN 1 ELSE nx, IF nz = 0 THEN 1 ELSE nz >>

\* (idx, idz) as the loops leave them: idz is the count of the last inner loop,
\* and stays 0 when the outer loop never runs.
LatticeSize(sb, cs) ==
    LET nx == WhileCount(sb.x_min, sb.x_max, cs)
        nz == IF nx = 0 THEN 0 ELSE WhileCount(sb.z_min, sb.z_max, cs)
    IN  << nx, nz >>

(***************************************************************************)
(* OccupancyMap.on_send: the build of the grid.                            *)
(***************************************************************************)
Shape(g) == << Len(g), Len(g[1]) >>

\* Grids are stored with the source's 0-based indices shifted by one.
Cell(g, i, j) == g[i + 1][j + 1]

SetCell(g, i, j, v) == [g EXCEPT ![i + 1][j + 1] = v]

InShape(g, i, j) == i >= 0 /\ i < Shape(g)[1] /\ j >= 0 /\ j < Shape(g)[2]

\* np.zeros(shape=(size[0] + 1, size[1] + 1), dtype=int)
Zeros(size) == [i \in 1..(size[1] + 1) |-> [j \in 1..(size[2] + 1) |-> 0]]

\* Mutant: the row index is decoded like the column index.
DecodeIdx_AsIdz(cast_id) == (cast_id - (cast_id % IdBase)) \div IdBase

\* idx = cast_id % 10000
DecodeIdx(cast_id) == cast_id % IdBase

\* idz = int((cast_id - (cast_id % 10000)) / 10000)
DecodeIdz(cast_id) == (cast_id - (cast_id % IdBase)) \div IdBase

\* a[i] on an axis of length n: an index in -n..n-1 is valid.
NpIndexValid(n, i) == i >= -n /\ i < n

\* a[i] on an axis of length n: a negative index counts from the end.
NpIndex(n, i) == IF i < 0 THEN i + n ELSE i

\* Whether self.occupancy_map[idx][idz] names a cell of the grid.
IndexValid(g, idx, idz) ==
    NpIndexValid(Shape(g)[1], idx) /\ NpIndexValid(Shape(g)[2], idz)

\* self.occupancy_map[idx][idz] = v, for indices that name a cell.
SetItem(g, idx, idz, v) ==
    SetCell(g, NpIndex(Shape(g)[1], idx), NpIndex(Shape(g)[2], idz), v)

\* The loop "for cast_id in hit_env", from the k-th key on. An index outside its
\* axis raises IndexError and a missing hit_obj entry raises KeyError; the
\* grid keeps what was written before.
RECURSIVE FillCells(_, _, _, _, _)
FillCells(g, order, k, hit_env, hit_obj) ==
    IF k > Len(order) THEN [grid |-> g, raised |-> "none"]
    ELSE LET cast_id == order[k]
             idx == DecodeIdx(cast_id)
             idz == DecodeIdz(cast_id)
         IN  IF ~hit_env[cast_id]
             THEN IF IndexValid(g, idx, idz)
                  THEN FillCells(SetItem(g, idx, idz, OUT_OF_BOUNDS), order, k + 1, hit_env, hit_obj)
                  ELSE [grid |-> g, raised |-> "IndexError"]
             ELSE IF cast_id \notin DOMAIN hit_obj
                  THEN [grid |-> g, raised |-> "KeyError"]
                  ELSE IF ~IndexValid(g, idx, idz)
                       THEN [grid |-> g, raised |-> "IndexError"]
                       ELSE FillCells(SetItem(g, idx, idz, IF hit_obj[cast_id] THEN OCCUPIED ELSE FREE),
                                      order, k + 1, hit_env, hit_obj)

\* Mutant: the last row and the last column are compared with the shape itself.
IsEdge_OffByOne(g, ix, iy) ==
    ix = 0 \/ ix = Shape(g)[1] \/ iy = 0 \/ iy = Shape(g)[2]

IsEdge(g, ix, iy) ==
    ix = 0 \/ ix = Shape(g)[1] - 1 \/ iy = 0 \/ iy = Shape(g)[2] - 1

\* "Assume that the edges of the occupancy map are out of bounds."
SetEdges(g) ==
    [i \in 1..Len(g) |-> [j \in 1..Len(g[1]) |->
        IF IsEdge(g, i - 1, j - 1) THEN OUT_OF_BOUNDS ELSE g[i][j]]]

\* np.ndindex(shape): the index pairs in row-major order.
NdIndex(shape) ==
    [k \in 1..(shape[1] * shape[2]) |-> << (k - 1) \div shape[2], (k - 1) % shape[2] >>]

\* The neighbours appended to to_check, in the order of the source.
Neighbors(px, py) ==
    << << px, py + 1 >>, << px + 1, py + 1 >>, << px + 1, py >>, << px + 1, py - 1 >>,
       << px, py - 1 >>, << px - 1, py - 1 >>, << px - 1, py >>, << px - 1, py + 1 >> >>

\* The flood fill "while len(to_check) > 0". to_check.pop(0) advances the head k of
\* the queue; in_island is the set of the positions of the list island.
RECURSIVE FloodFill(_, _, _, _, _)
FloodFill(g, to_check, k, island, in_island) ==
    IF k > Len(to_check) THEN island
    ELSE LET op == to_check[k]
         IN  IF \/ ~InShape(g, op[1], op[2])
                \/ Cell(g, op[1], op[2]) # 0
                \/ op \in in_island
             THEN FloodFill(g, to_check, k + 1, island, in_island)
             ELSE FloodFill(g, to_check \o Neighbors(op[1], op[2]), k + 1,
                            Append(island, op), in_island \cup {op})

\* The scan "for ox, oy in np.ndindex(shape)", from the k-th index on.
RECURSIVE ScanIslands(_, _, _, _, _)
ScanIslands(g, cells, k, traversed, islands) ==
    IF k > Len(cells) THEN islands
    ELSE IF cells[k] \in traversed
         THEN ScanIslands(g, cells, k + 1, traversed, islands)
         ELSE LET island == FloodFill(g, << cells[k] >>, 1, << >>, {})
              IN  IF Len(island) > 0
                  THEN ScanIslands(g, cells, k + 1, traversed \cup Range(island), Append(islands, island))
                  ELSE ScanIslands(g, cells, k + 1, traversed, islands)

\* __get_islands()
GetIslands(g) == ScanIslands(g, NdIndex(Shape(g)), 1, {}, << >>)

\* Mutant: an unstable insertion, which puts x before the elements of its length.
RECURSIVE InsertByLen_Unstable(_, _)
InsertByLen_Unstable(s, x) ==
    IF s = << >> THEN << x >>
    ELSE IF Len(Head(s)) < Len(x)
         THEN << Head(s) >> \o InsertByLen_Unstable(Tail(s), x)
         ELSE << x >> \o s

\* Insert x into the sorted sequence s after every element that is not longer.
RECURSIVE InsertByLen(_, _)
InsertByLen(s, x) ==
    IF s = << >> THEN << x >>
    ELSE IF Len(Head(s)) <= Len(x)
         THEN << Head(s) >> \o InsertByLen(Tail(s), x)
         ELSE << x >> \o s

\* sorted(islands, key=len): a stable sort, ascending by length.
RECURSIVE SortedByLenFrom(_, _, _)
SortedByLenFrom(islands, k, acc) ==
    IF k > Len(islands) THEN acc
    ELSE SortedByLenFrom(islands, k + 1, InsertByLen(acc, islands[k]))

SortedByLen(islands) == SortedByLenFrom(islands, 1, << >>)

\* Mutant: the slice drops the smallest island instead of the largest.
NonNavigable_KeepSmallest(g) ==
    LET s == SortedByLen(GetIslands(g))
    IN  IF Len(s) = 0 THEN << >> ELSE SubSeq(s, 2, Len(s))

\* Mutant: the slice drops the two largest islands instead of the largest.
NonNavigable_KeepTwo(g) ==
    LET s == SortedByLen(GetIslands(g))
    IN  IF Len(s) <= 1 THEN << >> ELSE SubSeq(s, 1, Len(s) - 2)

\* non_navigable = list(sorted(__get_islands(), key=len))[:-1]
NonNavigable(g) ==
    LET s == SortedByLen(GetIslands(g))
    IN  IF Len(s) = 0 THEN << >> ELSE SubSeq(s, 1, Len(s) - 1)

\* "Record non-navigable positions."
Prune(g) ==
    LET non_navigable == NonNavigable(g)
        nn == UNION { Range(non_navigable[k]) : k \in DOMAIN non_navigable }
    IN  [i \in 1..Len(g) |-> [j \in 1..Len(g[1]) |->
            IF << i - 1, j - 1 >> \in nn THEN OUT_OF_BOUNDS ELSE g[i][j]]]

\* The body of "if self.occupancy_map is None" in on_send.
BuildGrid(size, order, hit_env, hit_obj) ==
    LET filled == FillCells(Zeros(size), order, 1, hit_env, hit_obj)
    IN  IF filled.raised # "none" THEN filled
        ELSE [grid |-> Prune(SetEdges(filled.grid)), raised |-> "none"]

(***************************************************************************)
(* The response batches delivered to OccupancyMap.on_send.                 *)
(***************************************************************************)
\* What the probes of one cell can report.
ProbeKinds == << "nohit", "occupied", "nohit_object" >>

\* The ids of the commands of one type in the queue, each once, in queue order.
RECURSIVE IdsOfType(_, _, _, _)
IdsOfType(cmds, type, k, acc) ==
    IF k > Len(cmds) THEN acc
    ELSE IF cmds[k].type = type /\ cmds[k].id \notin Range(acc)
         THEN IdsOfType(cmds, type, k + 1, Append(acc, cmds[k].id))
         ELSE IdsOfType(cmds, type, k + 1, acc)

\* What the probes of cell d report when the cells of O are obstacles.
KindOf(k, O, pattern) ==
    IF k \notin O THEN "free"
    ELSE ProbeKinds[((k + pattern) % 3) + 1]

\* The response to the probes `order` when the probes numbered in O meet an
\* obstacle, without the frames numbered in M (frame 2k-1 is the raycast of the
\* k-th probe, frame 2k its overlap).
ProbeResponse(order, O, pattern, M) ==
    LET rayc == { k \in DOMAIN order : (2 * k - 1) \notin M }
        over == { k \in DOMAIN order : (2 * k) \notin M }
    IN  [order   |-> SelectSeq(order, LAMBDA d : \E k \in rayc : order[k] = d),
         hit_env |-> [d \in { order[k] : k \in rayc } |->
                        \E k \in rayc : order[k] = d /\ KindOf(k, O, pattern) \in {"free", "occupied"}],
         hit_obj |-> [d \in { order[k] : k \in over } |->
                        \E k \in over : order[k] = d /\ KindOf(k, O, pattern) \in {"occupied", "nohit_object"}]]

\* Raycast ids of frames that answer commands of other senders.
ForeignIds == { CastId(1, 0), CastId(0, -1) }

\* A batch without any frame of this add-on's probes: no probe frame at all, or one
\* raycast frame of another sender, with or without an overlap frame of the same id.
ForeignResponses ==
    { [order |-> << >>, hit_env |-> << >>, hit_obj |-> << >>] }
    \cup { [order |-> << d >>, hit_env |-> [e \in {d} |-> h], hit_obj |-> << >>] :
             d \in ForeignIds, h \in BOOLEAN }
    \cup { [order |-> << d >>, hit_env |-> [e \in {d} |-> h], hit_obj |-> [e \in {d} |-> o]] :
             d \in ForeignIds, h \in BOOLEAN, o \in BOOLEAN }

\* The batches the host can answer the sent commands with: every probe answered and
\* at most MaxObstacles obstacle cells, or at most MaxMissing frames missing and at
\* most one obstacle, at a cell that misses a frame.
Responses(sent) ==
    LET order == IdsOfType(sent, "send_raycast", 1, << >>)
    IN  IF order = << >> THEN ForeignResponses
        ELSE { ProbeResponse(order, O, p, {}) : O \in KSubsets(DOMAIN order, MaxObstacles), p \in 0..2 }
             \cup UNION { { ProbeResponse(order, O, p, M) :
                              O \in KSubsets({ (f + 1) \div 2 : f \in M }, 1), p \in 0..2 } :
                            M \in (KSubsets(1..(2 * Len(order)), MaxMissing) \ { {} }) }

\* The scene bounds the host can report.
SceneBoundsSet ==
    { [x_min |-> -1, x_max |-> -1 + w, z_min |-> 0, z_max |-> d] :
        w \in SceneExtentsX, d \in SceneExtentsZ }

\* The cell sizes passed to generate.
CellSizes == {1, 2}

(***************************************************************************)
(* The state machine of the OccupancyMap add-on.                           *)
(***************************************************************************)
NoBuild == [hit_env |-> << >>, hit_obj |-> << >>, raised |-> "none"]

NoPosition == [op |-> "none", i |-> 0, j |-> 0, value |-> << >>]

InitMap ==
    /\ om_initialized = FALSE
    /\ scene_bounds = None
    /\ occupancy_map = None
    /\ cell_size = -1
    /\ occupancy_map_size = << 0, 0 >>
    /\ om_commands = << >>
    /\ om_raised = "none"
    /\ om_build = NoBuild
    /\ om_last = "init"
    /\ om_ret = NoPosition
    /\ om_batch = [order |-> << >>, had_grid |-> FALSE]

\* Mutant: the grid is rebuilt from every batch.
NeedsBuild_Always == TRUE

\* Mutant: the grid is built only from the batch that also sets the scene bounds.
NeedsBuild_FirstBatchOnly == scene_bounds = None

\* "if self.occupancy_map is None"
NeedsBuild == occupancy_map = None

\* OccupancyMap.on_send(resp), where sb are the bounds SceneBounds(resp) decodes.
OnSend(sb, resp) ==
    /\ scene_bounds' = IF scene_bounds = None THEN sb ELSE scene_bounds
    /\ om_batch' = [order |-> resp.order, had_grid |-> occupancy_map # None]
    /\ IF NeedsBuild
       THEN LET built == BuildGrid(occupancy_map_size, resp.order, resp.hit_env, resp.hit_obj)
            IN  /\ occupancy_map' = built.grid
                /\ om_raised' = built.raised
                /\ om_build' = [hit_env |-> resp.hit_env, hit_obj |-> resp.hit_obj,
                                raised |-> built.raised]
       ELSE /\ occupancy_map' = occupancy_map
            /\ om_raised' = "none"
            /\ om_build' = om_build
    /\ UNCHANGED << cell_size, occupancy_map_size >>

\* One Controller.communicate() call: an add-on that is not initialized is
\* initialized, the queued commands of an initialized one are sent and cleared,
\* and on_send receives the response.
Communicate ==
    \E sb \in (IF scene_bounds = None THEN SceneBoundsSet ELSE { scene_bounds }) :
    \E resp \in Responses(IF om_initialized THEN om_commands ELSE << >>) :
        /\ om_initialized' = TRUE
        /\ om_commands' = IF om_initialized THEN << >> ELSE om_commands
        /\ om_last' = "communicate"
        /\ om_ret' = NoPosition
        /\ OnSend(sb, resp)
        /\ UNCHANGED notmap

\* The number of generate calls whose probes are queued.
PendingGenerates ==
    Cardinality({ k \in DOMAIN om_commands :
                    om_commands[k].type = "send_raycast" /\ om_commands[k].id = 0 })

\* Mutant: the cell size is stored before the test of self.initialized.
Generate_StoresCellSizeFirst(cs) ==
    /\ UNCHANGED notmap
    /\ om_last' = "generate"
    /\ om_ret' = NoPosition
    /\ om_raised' = "none"
    /\ IF ~om_initialized
       THEN /\ cell_size' = cs
            /\ UNCHANGED << om_initialized, scene_bounds, occupancy_map,
                            occupancy_map_size, om_commands, om_build, om_batch >>
       ELSE /\ occupancy_map' = None
            /\ cell_size' = cs
            /\ LET size == LatticeSize(scene_bounds, cs)
               IN  /\ om_commands' = om_commands \o LatticeCommands(scene_bounds, cs, 0, size[1], size[2])
                   /\ occupancy_map_size' = size
            /\ om_build' = NoBuild
            /\ om_batch' = [order |-> << >>, had_grid |-> FALSE]
            /\ UNCHANGED << om_initialized, scene_bounds >>

\* OccupancyMap.generate(cell_size)
Generate(cs) ==
    /\ UNCHANGED notmap
    /\ om_last' = "generate"
    /\ om_ret' = NoPosition
    /\ om_raised' = "none"
    /\ IF ~om_initialized
       THEN UNCHANGED << om_initialized, scene_bounds, occupancy_map, cell_size,
                         occupancy_map_size, om_commands, om_build, om_batch >>
       ELSE /\ occupancy_map' = None
            /\ cell_size' = cs
            /\ LET size == LatticeSize(scene_bounds, cs)
               IN  /\ om_commands' = om_commands \o LatticeCommands(scene_bounds, cs, 0, size[1], size[2])
                   /\ occupancy_map_size' = size
            /\ om_build' = NoBuild
            /\ om_batch' = [order |-> << >>, had_grid |-> FALSE]
            /\ UNCHANGED << om_initialized, scene_bounds >>

GenerateAny == \E cs \in CellSizes : Generate(cs)

\* The indices passed to get_occupancy_position.
QueryIndices == { << 0, 0 >>, << 1, 2 >> }

\* "return self.scene_bounds.x_min + (i * self._cell_size),
\*         self.scene_bounds.z_min + (j * self._cell_size)"
GetOccupancyPosition(i, j) ==
    << scene_bounds.x_min + (i * cell_size), scene_bounds.z_min + (j * cell_size) >>

\* OccupancyMap.get_occupancy_position(i, j): without scene bounds the attribute
\* access on None raises.
GetOccupancyPositionCall ==
    \E ij \in QueryIndices :
        /\ om_ret' = [op |-> "get_occupancy_position", i |-> ij[1], j |-> ij[2],
                      value |-> IF scene_bounds = None THEN << >>
                                ELSE GetOccupancyPosition(ij[1], ij[2])]
        /\ om_raised' = IF scene_bounds = None THEN "AttributeError" ELSE "none"
        /\ UNCHANGED << om_initialized, scene_bounds, occupancy_map, cell_size,
                        occupancy_map_size, om_commands, om_build, om_last, om_batch >>
        /\ UNCHANGED notmap

\* "if self.occupancy_map is None: raise Exception(...)" in show()
ShowRaises == occupancy_map = None

\* The number of queued commands of one type.
QueuedOfType(type) ==
    Cardinality({ k \in DOMAIN om_commands : om_commands[k].type = type })

\* The add_position_marker command show() appends for the free cell c; the scale
\* cell_size * 0.9 is kept as a fraction.
PositionMarker(c) ==
    [type |-> "add_position_marker",
     x |-> GetOccupancyPosition(c[1], c[2])[1],
     z |-> GetOccupancyPosition(c[1], c[2])[2],
     scale |-> [num |-> cell_size * 9, den |-> 10]]

\* The commands of the loop of show(): one marker per cell of value 0, in the
\* order of np.ndindex.
ShowCommands(g) ==
    LET free == SelectSeq(NdIndex(Shape(g)), LAMBDA c : Cell(g, c[1], c[2]) = 0)
    IN  [k \in DOMAIN free |-> PositionMarker(free[k])]

\* OccupancyMap.show()
Show ==
    /\ om_ret' = [op |-> "show", i |-> 0, j |-> 0, value |-> << >>]
    /\ IF ShowRaises
       THEN /\ om_raised' = "Exception"
            /\ om_commands' = om_commands
       ELSE /\ om_raised' = "none"
            /\ om_commands' = om_commands \o ShowCommands(occupancy_map)
    /\ UNCHANGED << om_initialized, scene_bounds, occupancy_map, cell_size,
                    occupancy_map_size, om_build, om_last, om_batch >>
    /\ UNCHANGED notmap

\* OccupancyMap.hide()
Hide ==
    /\ om_ret' = [op |-> "hide", i |-> 0, j |-> 0, value |-> << >>]
    /\ om_raised' = "none"
    /\ om_commands' = Append(om_commands, [type |-> "remove_position_markers"])
    /\ UNCHANGED << om_initialized, scene_bounds, occupancy_map, cell_size,
                    occupancy_map_size, om_build, om_last, om_batch >>
    /\ UNCHANGED notmap

\* The user code calls communicate before its queue grows past the bound of the
\* model: generate, show and hide are called while fewer than MaxQueued
\* lattices, markers and hide commands are queued.
QueueOpen ==
    PendingGenerates + QueuedOfType("add_position_marker")
        + QueuedOfType("remove_position_markers") < MaxQueued

NextMap ==
    \/ Communicate
    \/ GetOccupancyPositionCall
    \/ QueueOpen /\ GenerateAny
    \/ QueueOpen /\ Show
    \/ QueueOpen /\ Hide


(***************************************************************************)
(* Python floats.  The lengths of both add-ons are Python floats           *)
(* (IEEE 754 binary64): every +, -, *, / rounds its exact result to 53     *)
(* significant bits, ties to even.  A natural number of any width is a     *)
(* sequence of 15-bit limbs, least significant first, without leading      *)
(* zeros; a float is [s, m, e] and stands for s * m * 2^e, with m odd, and  *)
(* zero is [1, << >>, 0]: equal floats are equal records.  The values met  *)
(* here are far from overflow and underflow.                               *)
(***************************************************************************)
\* The value of an expression that is evaluated once and then used: S is
\* the set of that one value.
TheOnly(S) == CHOOSE v \in S : TRUE

MantissaBits == 53

LimbBits == 15

LimbBase == 32768

RECURSIVE Pow2(_)
Pow2(k) == IF k = 0 THEN 1 ELSE 2 * Pow2(k - 1)

RECURSIVE IntBitLen(_)
IntBitLen(n) == IF n = 0 THEN 0 ELSE 1 + IntBitLen(n \div 2)

RECURSIVE LTrim(_)
LTrim(b) ==
    IF b = << >> THEN << >>
    ELSE IF b[Len(b)] = 0 THEN LTrim(SubSeq(b, 1, Len(b) - 1)) ELSE b

RECURSIVE LFromInt(_)
LFromInt(n) ==
    IF n = 0 THEN << >> ELSE << n % LimbBase >> \o LFromInt(n \div LimbBase)

RECURSIVE LToInt(_)
LToInt(b) == IF b = << >> THEN 0 ELSE b[1] + LimbBase * LToInt(Tail(b))

LLimb(b, k) == IF k \in DOMAIN b THEN b[k] ELSE 0

LRest(b) == IF b = << >> THEN << >> ELSE Tail(b)

RECURSIVE LAddC(_, _, _)
LAddC(a, b, c) ==
    IF a = << >> /\ b = << >>
    THEN IF c = 0 THEN << >> ELSE << c >>
    ELSE TheOnly({ << s % LimbBase >> \o LAddC(LRest(a), LRest(b), s \div LimbBase) :
                      s \in { LLimb(a, 1) + LLimb(b, 1) + c } })

LAdd(a, b) == LAddC(a, b, 0)

RECURSIVE LSubB(_, _, _)
LSubB(a, b, c) ==
    IF a = << >> THEN << >>
    ELSE TheOnly({ << (d + LimbBase) % LimbBase >>
                       \o LSubB(Tail(a), LRest(b), IF d < 0 THEN 1 ELSE 0) :
                      d \in { a[1] - LLimb(b, 1) - c } })

\* a - b for a >= b.
LSub(a, b) == LTrim(LSubB(a, b, 0))

LLess(a, b) ==
    \/ Len(a) < Len(b)
    \/ /\ Len(a) = Len(b)
       /\ \E k \in DOMAIN a :
              /\ a[k] < b[k]
              /\ \A h \in (k + 1)..Len(a) : a[h] = b[h]

RECURSIVE LMulSmallC(_, _, _)
LMulSmallC(a, n, c) ==
    IF a = << >>
    THEN IF c = 0 THEN << >> ELSE << c >>
    ELSE TheOnly({ << p % LimbBase >> \o LMulSmallC(Tail(a), n, p \div LimbBase) :
                      p \in { a[1] * n + c } })

\* a * n for 0 <= n <= LimbBase.
LMulSmall(a, n) == IF n = 0 THEN << >> ELSE LMulSmallC(a, n, 0)

LShlLimbs(a, k) == IF a = << >> THEN << >> ELSE [n \in 1..k |-> 0] \o a

RECURSIVE LMul(_, _)
LMul(a, b) ==
    IF b = << >> THEN << >>
    ELSE LAdd(LMulSmall(a, b[1]), LShlLimbs(LMul(a, Tail(b)), 1))

\* a * 2^k.
LShl(a, k) == LShlLimbs(LMulSmall(a, Pow2(k % LimbBits)), k \div LimbBits)

\* Quotient and remainder of the limbs k..Len(a) of a by 0 < n <= LimbBase.
RECURSIVE LDivSmallFrom(_, _, _)
LDivSmallFrom(a, n, k) ==
    IF k > Len(a) THEN [q |-> << >>, r |-> 0]
    ELSE TheOnly({ [q |-> << (p.r * LimbBase + a[k]) \div n >> \o p.q,
                    r |-> (p.r * LimbBase + a[k]) % n] :
                      p \in { LDivSmallFrom(a, n, k + 1) } })

\* a \div 2^k.
LShr(a, k) ==
    LTrim(LDivSmallFrom(IF k \div LimbBits >= Len(a) THEN << >>
                        ELSE SubSeq(a, (k \div LimbBits) + 1, Len(a)),
                        Pow2(k % LimbBits), 1).q)

LBitLen(a) ==
    IF a = << >> THEN 0 ELSE LimbBits * (Len(a) - 1) + IntBitLen(a[Len(a)])

\* Bit k of a, the least significant being bit 1.
LBit(a, k) ==
    (LLimb(a, ((k - 1) \div LimbBits) + 1) \div Pow2((k - 1) % LimbBits)) % 2

\* The k lowest bits of a are zero.
LLowZero(a, k) == LShl(LShr(a, k), k) = a

\* The largest d' <= d with b * d' <= r.
RECURSIVE LDigitFrom(_, _, _)
LDigitFrom(r, b, d) ==
    IF LLess(r, LMulSmall(b, d)) THEN LDigitFrom(r, b, d - 1) ELSE d

\* The largest d < LimbBase with b * d <= r, for r < b * LimbBase and a b
\* whose top limb is at least LimbBase / 2: the quotient of the two top limbs
\* of r by the top limb of b is at least d and at most d + 2.
LDigit(r, b) ==
    TheOnly({ LDigitFrom(r, b, IF est >= LimbBase THEN LimbBase - 1 ELSE est) :
                 est \in { (LLimb(r, Len(b) + 1) * LimbBase + LLimb(r, Len(b))) \div b[Len(b)] } })

\* One step of the long division: the quotient limbs q so far and the
\* remainder r with the next limb of the dividend.
LDivStep(q, r, b) ==
    TheOnly({ [q |-> << d >> \o q, r |-> LSub(r, LMulSmall(b, d))] : d \in { LDigit(r, b) } })

\* Long division of the limbs k..Len(a) of a by b, most significant first.
RECURSIVE LDivFrom(_, _, _)
LDivFrom(a, b, k) ==
    IF k > Len(a) THEN [q |-> << >>, r |-> << >>]
    ELSE TheOnly({ LDivStep(p.q, LTrim(<< a[k] >> \o p.r), b) :
                      p \in { LDivFrom(a, b, k + 1) } })

\* Quotient and remainder of a by b > 0: both are shifted so that the top limb
\* of the divisor is at least LimbBase / 2.
LDivMod(a, b) ==
    TheOnly({ TheOnly({ [q |-> LTrim(d.q), r |-> LShr(d.r, shift)] :
                           d \in { LDivFrom(LShl(a, shift), LShl(b, shift), 1) } }) :
                 shift \in { LimbBits - IntBitLen(b[Len(b)]) } })

\* The root of n found from bit j downwards: r has the bits above bit j.
RECURSIVE LSqrtFrom(_, _, _)
LSqrtFrom(n, j, r) ==
    IF j < 0 THEN r
    ELSE LET c == LAdd(r, LShl(<< 1 >>, j))
         IN  IF LLess(n, LMul(c, c)) THEN LSqrtFrom(n, j - 1, r)
             ELSE LSqrtFrom(n, j - 1, c)

\* The largest r with r * r <= n.
LSqrt(n) == LSqrtFrom(n, (LBitLen(n) + 1) \div 2, << >>)

RECURSIVE IntLowZeros(_)
IntLowZeros(n) == IF n % 2 = 1 THEN 0 ELSE 1 + IntLowZeros(n \div 2)

\* The number of zero bits below the lowest set bit of b > 0.
RECURSIVE LLowZeros(_)
LLowZeros(b) == IF b[1] = 0 THEN LimbBits + LLowZeros(Tail(b)) ELSE IntLowZeros(b[1])

FZero == [s |-> 1, m |-> << >>, e |-> 0]

\* The float s * m * 2^e of an m of at most MantissaBits bits.
FMake(s, m, e) ==
    IF m = << >> THEN FZero
    ELSE TheOnly({ [s |-> s, m |-> LShr(m, zeros), e |-> e + zeros] :
                      zeros \in { LLowZeros(m) } })

\* Bit k of m and the bits below it say to round up the bits kept above it:
\* more than half of the last bit kept, or half of it and the last bit is odd.
RoundsUp(m, k, kept, sticky) ==
    LBit(m, k) = 1 /\ (sticky \/ ~LLowZero(m, k - 1) \/ kept[1] % 2 = 1)

\* The bits of m above bit k, rounded.
RoundedAt(m, k, sticky) ==
    TheOnly({ IF RoundsUp(m, k, kept, sticky) THEN LAdd(kept, << 1 >>) ELSE kept :
                 kept \in { LShr(m, k) } })

\* The MantissaBits leading bits of m, rounded; m when it has no more bits.
Rounded(m, sticky) ==
    IF LBitLen(m) <= MantissaBits THEN m ELSE RoundedAt(m, LBitLen(m) - MantissaBits, sticky)

\* Round s * m * 2^e (plus a positive rest below the last bit when sticky) to
\* the nearest float, ties to even.
RoundF(s, m, e, sticky) ==
    TheOnly({ FMake(s, rounded, e + k) :
                 k \in { IF LBitLen(m) <= MantissaBits THEN 0 ELSE LBitLen(m) - MantissaBits },
                 rounded \in { Rounded(m, sticky) } })

\* float(n) of a small int.
FFromInt(n) == FMake(IF n < 0 THEN -1 ELSE 1, LFromInt(IF n < 0 THEN -n ELSE n), 0)

FNeg(x) == IF x.m = << >> THEN x ELSE [x EXCEPT !.s = -x.s]

FMul(x, y) ==
    TheOnly({ RoundF(x.s * y.s, product, x.e + y.e, FALSE) : product \in { LMul(x.m, y.m) } })

\* The sum of sx * a and sy * b as a sign and a magnitude.
SignedSum(sx, a, sy, b) ==
    IF sx = sy THEN [s |-> sx, m |-> LAdd(a, b)]
    ELSE IF LLess(a, b) THEN [s |-> sy, m |-> LSub(b, a)]
    ELSE [s |-> sx, m |-> LSub(a, b)]

\* x + y with both mantissas at the exponent e.
FAddAt(x, y, e) ==
    TheOnly({ RoundF(sum.s, sum.m, e, FALSE) :
                 sum \in { SignedSum(x.s, a, y.s, b) :
                               a \in { LShl(x.m, x.e - e) }, b \in { LShl(y.m, y.e - e) } } })

FAdd(x, y) == FAddAt(x, y, IF x.e < y.e THEN x.e ELSE y.e)

FSub(x, y) == FAdd(x, FNeg(y))

AtLeastZero(d) == IF d < 0 THEN 0 ELSE d

\* x / y with the mantissa of x shifted by k bits.
FDivAt(x, y, k) ==
    TheOnly({ RoundF(x.s * y.s, dm.q, x.e - y.e - k, dm.r # << >>) :
                 dm \in { LDivMod(LShl(x.m, k), y.m) } })

FDiv(x, y) ==
    IF x.m = << >> THEN FZero
    ELSE FDivAt(x, y, AtLeastZero(MantissaBits + 2 + LBitLen(y.m) - LBitLen(x.m)))

\* The sign of a float: -1, 0 or 1.
FSign(x) == IF x.m = << >> THEN 0 ELSE x.s

\* The position of the leading bit of a float that is not zero.
FTop(x) == LBitLen(x.m) + x.e

\* -1 when |x| is below |y|, 0 when they are equal, 1 when it is above, for
\* two floats that are not zero.
FCompareAbs(x, y) ==
    IF x.m = y.m /\ x.e = y.e THEN 0
    ELSE IF FTop(x) # FTop(y) THEN (IF FTop(x) < FTop(y) THEN -1 ELSE 1)
    ELSE IF x.e < y.e THEN (IF LLess(x.m, LShl(y.m, y.e - x.e)) THEN -1 ELSE 1)
    ELSE IF LLess(LShl(x.m, x.e - y.e), y.m) THEN -1 ELSE 1

\* -1 when the float x is below the float y, 0 when they are equal, 1 when
\* it is above.
FCompare(x, y) ==
    IF FSign(x) # FSign(y) THEN (IF FSign(x) < FSign(y) THEN -1 ELSE 1)
    ELSE IF FSign(x) = 0 THEN 0
    ELSE FSign(x) * FCompareAbs(x, y)

FLess(x, y) == FCompare(x, y) < 0

\* abs(x)
FAbs(x) == [x EXCEPT !.s = 1]

\* The shift k or k + 1 that leaves an even exponent e - k.
EvenExponent(e, k) == IF (e - k) % 2 = 0 THEN k ELSE k + 1

\* The root of x with its mantissa shifted by k bits.
FSqrtAt(x, k) ==
    TheOnly({ RoundF(1, root.r, (x.e - k) \div 2, LMul(root.r, root.r) # root.n) :
                 root \in { [n |-> n, r |-> LSqrt(n)] : n \in { LShl(x.m, k) } } })

\* math.sqrt of a float that is not negative: the root of m * 2^k, with k
\* so that the exponent left is even and the root has bits to round.
FSqrt(x) ==
    IF x.m = << >> THEN FZero
    ELSE FSqrtAt(x, EvenExponent(x.e, AtLeastZero(2 * (MantissaBits + 2) - LBitLen(x.m))))

\* math.floor of a float of small magnitude.
FFloor(x) ==
    IF x.e >= 0 THEN x.s * LToInt(LShl(x.m, x.e))
    ELSE IF x.s = 1 \/ LLowZero(x.m, -x.e) THEN x.s * LToInt(LShr(x.m, -x.e))
    ELSE -(LToInt(LShr(x.m, -x.e)) + 1)

\* The float a decimal literal num/den denotes: the float nearest to it.
FLiteral(q) == FDiv(FFromInt(q.num), FFromInt(q.den))

(***************************************************************************)
(* ProcGenObjectArranger: program constants.  The lengths the arranger     *)
(* computes with are Python floats.  The decimal literals of the code, of  *)
(* the data files and of the arguments of the calls are written in         *)
(* hundredths, v for the literal v / 100, and become the float nearest to  *)
(* it where the code reads them.  Densities are in hundredths.             *)
(***************************************************************************)
\* The floats of the decimal literals met most often, hundredths -> float.
FloatLiterals ==
    (-40 :> [s |-> -1, m |-> << 19661, 6553, 13107, 102 >>, e |-> -53])
    @@ (-35 :> [s |-> -1, m |-> << 13107, 26214, 19660, 89 >>, e |-> -53])
    @@ (-30 :> [s |-> -1, m |-> << 13107, 26214, 19660, 153 >>, e |-> -54])
    @@ (-20 :> [s |-> -1, m |-> << 19661, 6553, 13107, 102 >>, e |-> -54])
    @@ (-15 :> [s |-> -1, m |-> << 13107, 26214, 19660, 153 >>, e |-> -55])
    @@ (-6 :> [s |-> -1, m |-> << 9175, 31457, 23592, 30 >>, e |-> -54])
    @@ (-4 :> [s |-> -1, m |-> << 5243, 3932, 27525, 163 >>, e |-> -57])
    @@ (0 :> [s |-> 1, m |-> << >>, e |-> 0])
    @@ (2 :> [s |-> 1, m |-> << 5243, 3932, 27525, 163 >>, e |-> -58])
    @@ (4 :> [s |-> 1, m |-> << 5243, 3932, 27525, 163 >>, e |-> -57])
    @@ (5 :> [s |-> 1, m |-> << 19661, 6553, 13107, 102 >>, e |-> -56])
    @@ (6 :> [s |-> 1, m |-> << 9175, 31457, 23592, 30 >>, e |-> -54])
    @@ (10 :> [s |-> 1, m |-> << 19661, 6553, 13107, 102 >>, e |-> -55])
    @@ (15 :> [s |-> 1, m |-> << 13107, 26214, 19660, 153 >>, e |-> -55])
    @@ (20 :> [s |-> 1, m |-> << 19661, 6553, 13107, 102 >>, e |-> -54])
    @@ (22 :> [s |-> 1, m |-> << 23593, 1310, 9175, 225 >>, e |-> -55])
    @@ (24 :> [s |-> 1, m |-> << 9175, 31457, 23592, 30 >>, e |-> -52])
    @@ (28 :> [s |-> 1, m |-> << 5243, 3932, 27525, 35 >>, e |-> -52])
    @@ (30 :> [s |-> 1, m |-> << 13107, 26214, 19660, 153 >>, e |-> -54])
    @@ (35 :> [s |-> 1, m |-> << 13107, 26214, 19660, 89 >>, e |-> -53])
    @@ (40 :> [s |-> 1, m |-> << 19661, 6553, 13107, 102 >>, e |-> -53])
    @@ (45 :> [s |-> 1, m |-> << 19661, 6553, 13107, 230 >>, e |-> -54])
    @@ (50 :> [s |-> 1, m |-> << 1 >>, e |-> -1])
    @@ (60 :> [s |-> 1, m |-> << 13107, 26214, 19660, 153 >>, e |-> -53])
    @@ (70 :> [s |-> 1, m |-> << 13107, 26214, 19660, 89 >>, e |-> -52])
    @@ (80 :> [s |-> 1, m |-> << 19661, 6553, 13107, 102 >>, e |-> -52])
    @@ (90 :> [s |-> 1, m |-> << 19661, 6553, 13107, 230 >>, e |-> -53])
    @@ (98 :> [s |-> 1, m |-> << 9175, 31457, 23592, 62 >>, e |-> -51])
    @@ (100 :> [s |-> 1, m |-> << 1 >>, e |-> 0])
    @@ (120 :> [s |-> 1, m |-> << 13107, 26214, 19660, 153 >>, e |-> -52])
    @@ (180 :> [s |-> 1, m |-> << 19661, 6553, 13107, 230 >>, e |-> -52])
    @@ (200 :> [s |-> 1, m |-> << 1 >>, e |-> 1])
    @@ (250 :> [s |-> 1, m |-> << 5 >>, e |-> -1])
    @@ (300 :> [s |-> 1, m |-> << 3 >>, e |-> 0])
    @@ (360 :> [s |-> 1, m |-> << 19661, 6553, 13107, 230 >>, e |-> -51])

\* Every entry of the table is the float nearest to its literal.
FloatLiteralsExact ==
    \A v \in DOMAIN FloatLiterals : FloatLiterals[v] = FLiteral([num |-> v, den |-> 100])

\* The float of the decimal literal v / 100.
FHundredths(v) ==
    IF v \in DOMAIN FloatLiterals THEN FloatLiterals[v]
    ELSE FLiteral([num |-> v, den |-> 100])

\* The float vector of a vector of decimal literals.
FVector3(p) == [x |-> FHundredths(p.x), y |-> FHundredths(p.y), z |-> FHundredths(p.z)]

\* math.ceil of a float of small magnitude.
FCeil(x) == -FFloor(FNeg(x))

\* int(x) of a float of small magnitude: the fraction is dropped.
FTrunc(x) == IF x.s = 1 THEN FFloor(x) ELSE FCeil(x)

\* _WALL_DEPTH: float = 0.28
WALL_DEPTH == 28
\* The 0.4 added to _WALL_DEPTH in the anchor of get_lateral_arrangement.
WallClearance == 40
\* _get_rectangular_arrangement_parameters: "return 0.05, 0.4"
DefaultCellSize == 5
DefaultDensity == 40
\* The 0.8 of "surface_size = (model_size[0] * 0.8, model_size[1] * 0.8)"
SurfaceScale == 80
\* The 0.025 of the perturbation of a position, as a fraction.
PerturbationScale == [num |-> 25, den |-> 1000]
\* The only category get_lateral_arrangement may place more than once.
Repeatable == "kitchen_counter"

(***************************************************************************)
(* The data the add-on loads: the model library, models.json,              *)
(* shelves.json, rectangular_arrangements.json, the vertical spatial       *)
(* relations and the lateral relations of the room types.  A small catalog *)
(* stands for the data files.                                              *)
(***************************************************************************)
Vector3(x, y, z) == [x |-> x, y |-> y, z |-> z]

\* The cached bounds of an axis-aligned model, w wide (x), d deep (z), h high,
\* as the decimal literals of the library.
BoxBounds(w, d, h) ==
    [left   |-> Vector3(-(w \div 2), h \div 2, 0),
     right  |-> Vector3(w \div 2, h \div 2, 0),
     front  |-> Vector3(0, h \div 2, d \div 2),
     back   |-> Vector3(0, h \div 2, -(d \div 2)),
     center |-> Vector3(0, h \div 2, 0),
     top    |-> Vector3(0, h, 0)]

\* Controller.MODEL_LIBRARIANS["models_core.json"]: model name -> record.bounds
ModelRecords ==
    [counter       |-> BoxBounds(60, 60, 90),
     counter_small |-> BoxBounds(30, 60, 90),
     fridge        |-> BoxBounds(80, 70, 180),
     shelf_deep    |-> BoxBounds(80, 40, 120),
     shelf_shallow |-> BoxBounds(60, 30, 120),
     cup           |-> BoxBounds(8, 8, 10),
     plate         |-> BoxBounds(12, 12, 2)]

MODEL_CATEGORIES ==
    [kitchen_counter |-> << "counter", "counter_small" >>,
     refrigerator    |-> << "fridge" >>,
     shelf           |-> << "shelf_deep", "shelf_shallow" >>,
     cup             |-> << "cup" >>,
     plate           |-> << "plate" >>]

SHELVES ==
    [shelf_deep    |-> [size |-> << 24, 24 >>, ys |-> << 40, 80 >>],
     shelf_shallow |-> [size |-> << 22, 24 >>, ys |-> << 40 >>]]

RECTANGULAR_ARRANGEMENTS ==
    [kitchen_counter |-> [cell_size |-> 10, density |-> 40]]

\* VERTICAL_SPATIAL_RELATIONS, in the order its keys are iterated.
VERTICAL_SPATIAL_RELATIONS ==
    << [relation |-> "on_top_of", categories |-> [kitchen_counter |-> << "cup", "plate" >>]],
       [relation |-> "on_shelf",  categories |-> [shelf |-> << "plate" >>]] >>

ROOM_TYPE_LATERAL_SPATIAL_RELATIONS ==
    [kitchen |-> << "kitchen_counter", "refrigerator", "shelf" >>,
     pantry  |-> << "refrigerator" >>]

\* RegionBounds.is_inside(x, z) of two floats: "self.x_min <= x <= self.x_max
\* and self.z_min <= z <= self.z_max".
IsInside(region_bounds, x, z) ==
    \A test \in { << FHundredths(region_bounds.x_min), x >>, << x, FHundredths(region_bounds.x_max) >>,
                  << FHundredths(region_bounds.z_min), z >>, << z, FHundredths(region_bounds.z_max) >> } :
        FCompare(test[1], test[2]) <= 0

RegionBounds(x_min, x_max, z_min, z_max) ==
    [x_min |-> x_min, x_max |-> x_max, z_min |-> z_min, z_max |-> z_max]

\* The scenes the host can report: SceneBounds(resp).rooms, the bounds as
\* decimal literals.
SceneRooms ==
    { << RegionBounds(0, 200, 0, 200), RegionBounds(200, 360, 0, 120) >>,
      << RegionBounds(0, 98, 0, 98) >> }

(***************************************************************************)
(* Pure functions of the arranger.                                         *)
(***************************************************************************)
\* TDWUtils.vector3_to_array(a) - TDWUtils.vector3_to_array(b)
ArrayDifference(a, b) ==
    << FSub(FHundredths(a.x), FHundredths(b.x)), FSub(FHundredths(a.y), FHundredths(b.y)),
       FSub(FHundredths(a.z), FHundredths(b.z)) >>

\* d . d of an array of three floats, summed from the first entry on.
DotSelf(d) ==
    TheOnly({ TheOnly({ FAdd(xy, sq[3]) : xy \in { FAdd(sq[1], sq[2]) } }) :
                 sq \in { [k \in 1..3 |-> FMul(d[k], d[k])] } })

\* np.linalg.norm(d) of an array of three floats: the root of d . d.  The
\* square of one float rounds to a float whose root rounds back to the
\* magnitude of that float, so the norm of an array with one entry that is
\* not zero is the magnitude of that entry.
NormOf(d) ==
    LET set == { k \in 1..3 : d[k].m # << >> }
    IN  IF set = {} THEN FZero
        ELSE IF Cardinality(set) = 1 THEN FAbs(d[TheOnly(set)])
        ELSE TheOnly({ FSqrt(sum) : sum \in { DotSelf(d) } })

\* np.linalg.norm(a - b)
Norm(a, b) == TheOnly({ NormOf(d) : d \in { ArrayDifference(a, b) } })

\* ProcGenObjectArranger._get_size(record)
GetSize(name) ==
    LET bounds == ModelRecords[name]
    IN  << Norm(bounds.left, bounds.right), Norm(bounds.front, bounds.back) >>

\* ProcGenObjectArranger._get_rectangular_arrangement_parameters(category)
GetRectangularArrangementParameters(category) ==
    IF category \notin DOMAIN RECTANGULAR_ARRANGEMENTS
    THEN << FHundredths(DefaultCellSize), DefaultDensity >>
    ELSE << FHundredths(RECTANGULAR_ARRANGEMENTS[category].cell_size),
            RECTANGULAR_ARRANGEMENTS[category].density >>

\* Mutant: only the centre of the model has to be inside the region.
ModelFitsInRegion_CenterOnly(name, position, region_bounds) ==
    \A point \in { ModelRecords[name].center } :
        \E at \in { << FAdd(FHundredths(point.x), position.x),
                       FAdd(FHundredths(point.z), position.z) >> } :
            IsInside(region_bounds, at[1], at[2])

\* ProcGenObjectArranger._model_fits_in_region(record, position, region_bounds)
ModelFitsInRegion(name, position, region_bounds) ==
    LET bounds == ModelRecords[name]
    IN  \A point \in { bounds.left, bounds.right, bounds.front, bounds.back, bounds.center } :
            \E at \in { << FAdd(FHundredths(point.x), position.x),
                           FAdd(FHundredths(point.z), position.z) >> } :
                IsInside(region_bounds, at[1], at[2])

\* Mutant: the first shuffled name is returned whether it fits or not.
ModelsThatFitInRegion_Any(model_names, object_position, region_bounds) ==
    Range(model_names)

\* ProcGenObjectArranger._get_model_that_fits_in_region: the names it can return.
\* The names are shuffled and the first one that fits is taken, so every
\* fitting name can be the one returned, and None is returned when there is none.
ModelsThatFitInRegion(model_names, object_position, region_bounds) ==
    { mn \in Range(model_names) : ModelFitsInRegion(mn, object_position, region_bounds) }

\* Controller.get_add_physics_object(model_name, position, object_id): the
\* add_object command of the list it returns.
AddPhysicsObject(model_name, position, object_id) ==
    << [type |-> "add_object", name |-> model_name, id |-> object_id,
        x |-> position.x, y |-> position.y, z |-> position.z] >>

\* Mutant: the root is parented and unparented like the other objects.
ChildIds_WithRoot(commands, root_object_id) ==
    LET adds == SelectSeq(commands, LAMBDA c : c.type = "add_object")
    IN  [k \in DOMAIN adds |-> adds[k].id]

\* The ids of the add_object commands other than the root's, in list order.
ChildIds(commands, root_object_id) ==
    LET adds == SelectSeq(commands, LAMBDA c : c.type = "add_object" /\ c.id # root_object_id)
    IN  [k \in DOMAIN adds |-> adds[k].id]

\* ProcGenObjectArranger._get_rotation_commands(root_object_id, rotation, commands)
GetRotationCommands(root_object_id, rotation, commands) ==
    LET ids == ChildIds(commands, root_object_id)
    IN  [k \in DOMAIN ids |-> [type |-> "parent_object_to_object", id |-> ids[k],
                                parent_id |-> root_object_id]]
        \o << [type |-> "rotate_object_by", angle |-> rotation, id |-> root_object_id] >>
        \o [k \in DOMAIN ids |-> [type |-> "unparent_object", id |-> ids[k]]]

\* len(np.arange(start, stop, step)) of three floats: the quotient
\* (stop - start) / step is rounded up to an integer, and a negative length is 0.
ArangeLen(start, stop, step) ==
    TheOnly({ IF FCeil(quotient) < 0 THEN 0 ELSE FCeil(quotient) :
                 quotient \in { FDiv(span, by) :
                                   span \in { FSub(to, from) : from \in { start }, to \in { stop } },
                                   by \in { step } } })

\* len(np.arange(cell_size, side - cell_size, cell_size)) of two floats
CellsAlong(side, cs) == TheOnly({ ArangeLen(cs, stop, cs) : stop \in { FSub(side, cs) } })

\* np.ndindex(shape): the k-th index pair, k = 1 .. shape[0] * shape[1]
NdIndexAt(shape, k) == << (k - 1) \div shape[2], (k - 1) % shape[2] >>

\* __get_circle_mask(circle_x, circle_y, radius): the cells where the mask is True
CircleMask(shape, circle_x, circle_y, radius) ==
    { c \in (0..(shape[1] - 1)) \X (0..(shape[2] - 1)) :
        (c[2] - circle_y) * (c[2] - circle_y) + (c[1] - circle_x) * (c[1] - circle_x)
            <= radius * radius }

\* "model_size[0] if model_size[0] > model_size[1] else model_size[1]"
LargerSide(model_size) ==
    IF FCompare(model_size[1], model_size[2]) > 0 THEN model_size[1] ELSE model_size[2]

\* The larger of the two spans of a model.
SemiMajorAxis(name) == TheOnly({ LargerSide(model_size) : model_size \in { GetSize(name) } })

\* The models of a category that pass "model_semi_major_axis < semi_minor_axis",
\* each with its category and its semi-major axis, in list order.
ValidModelsOf(category, semi_minor_axis) ==
    IF category \notin DOMAIN MODEL_CATEGORIES THEN << >>
    ELSE SelectSeq([i \in DOMAIN MODEL_CATEGORIES[category] |->
                       [name |-> MODEL_CATEGORIES[category][i], category |-> category,
                        size |-> SemiMajorAxis(MODEL_CATEGORIES[category][i])]],
                   LAMBDA entry : FCompare(entry.size, semi_minor_axis) < 0)

\* The models the loop over categories keeps, in loop order.
RECURSIVE ValidModelsFrom(_, _, _)
ValidModelsFrom(categories, k, semi_minor_axis) ==
    IF k > Len(categories) THEN << >>
    ELSE ValidModelsOf(categories[k], semi_minor_axis)
             \o ValidModelsFrom(categories, k + 1, semi_minor_axis)

\* The keys of a dict filled from pairs, in insertion order.
DictKeys(pairs) ==
    LET firsts == { k \in DOMAIN pairs : \A j \in 1..(k - 1) : pairs[j][1] # pairs[k][1] }
        Nth(i) == CHOOSE k \in firsts : Cardinality({ j \in firsts : j < k }) = i - 1
    IN  [i \in 1..Cardinality(firsts) |-> pairs[Nth(i)][1]]

\* The values of a dict filled from pairs: a later pair overwrites an earlier one.
DictOf(pairs) ==
    [name \in { pairs[k][1] : k \in DOMAIN pairs } |->
        pairs[CHOOSE k \in DOMAIN pairs :
                 pairs[k][1] = name /\ \A j \in DOMAIN pairs : pairs[j][1] = name => j <= k][2]]

\* "int(model_semi_major_axis / cell_size)": the float quotient without its
\* fraction.
IntQuotient(model_semi_major_axis, cs) ==
    TheOnly({ FTrunc(quotient) : quotient \in { FDiv(model_semi_major_axis, cs) } })

(***************************************************************************)
(* list(set(l)) of a list of positive ints, as CPython builds it: a table  *)
(* of 8 slots, a key hashed to itself and put in the first free slot of    *)
(* its probe sequence, the table made larger when three fifths of it are   *)
(* filled, and the keys listed in slot order.  0 marks a free slot.        *)
(***************************************************************************)
LINEAR_PROBES == 9
PERTURB_SHIFT == 5
PySetMinSize == 8

SetMask(table) == Cardinality(DOMAIN table) - 1

SetKeys(table) ==
    LET slots == [k \in 1..(SetMask(table) + 1) |-> k - 1]
        used == SelectSeq(slots, LAMBDA i : table[i] # 0)
    IN  [k \in DOMAIN used |-> table[used[k]]]

\* set_add_entry: the table after the key is looked up from slot i on.
RECURSIVE SetInsert(_, _, _, _)
SetInsert(table, key, i, perturb) ==
    LET mask == SetMask(table)
        probes == IF i + LINEAR_PROBES <= mask THEN LINEAR_PROBES ELSE 0
        stops == { j \in i..(i + probes) : table[j] = 0 \/ table[j] = key }
        first == CHOOSE j \in stops : \A other \in stops : j <= other
        shifted == perturb \div Pow2(PERTURB_SHIFT)
    IN  IF stops # {} THEN [table EXCEPT ![first] = key]
        ELSE SetInsert(table, key, ((i * 5) + 1 + shifted) % (mask + 1), shifted)

RECURSIVE SetNewSize(_, _)
SetNewSize(newsize, minused) ==
    IF newsize > minused THEN newsize ELSE SetNewSize(newsize * 2, minused)

\* set_table_resize: the keys are put in a new table in their slot order.
RECURSIVE SetRefill(_, _, _)
SetRefill(table, keys, k) ==
    IF k > Len(keys) THEN table
    ELSE SetRefill(SetInsert(table, keys[k], keys[k] % (SetMask(table) + 1), keys[k]),
                   keys, k + 1)

\* set_add_key
SetAdd(table, key) ==
    LET mask == SetMask(table)
        added == SetInsert(table, key, key % (mask + 1), key)
        keys == SetKeys(added)
    IN  IF added = table \/ Len(keys) * 5 < mask * 3 THEN added
        ELSE SetRefill([i \in 0..(SetNewSize(PySetMinSize, Len(keys) * 4) - 1) |-> 0], keys, 1)

RECURSIVE SetFrom(_, _, _)
SetFrom(table, items, k) ==
    IF k > Len(items) THEN table ELSE SetFrom(SetAdd(table, items[k]), items, k + 1)

\* list(set(items))
ListOfSet(items) == SetKeys(SetFrom([i \in 0..(PySetMinSize - 1) |-> 0], items, 1))

Reverse(s) == [k \in DOMAIN s |-> s[Len(s) + 1 - k]]

\* "model_cell_sizes = list(set(model_cell_sizes)); model_cell_sizes.reverse()"
ModelCellSizes(valid, cs) ==
    TheOnly({ Reverse(ListOfSet(appended)) :
                 appended \in { [k \in DOMAIN valid |-> IntQuotient(valid[k].size, cs) + 1] } })

\* The loop over model_cell_sizes from position k on: the radius in sma when it ends.
RECURSIVE SmaLoop(_, _, _, _, _, _, _)
SmaLoop(model_cell_sizes, k, sma, shape, occupancy, ix, iz) ==
    IF k > Len(model_cell_sizes) THEN sma
    ELSE LET mcs == model_cell_sizes[k]
         IN  IF ix - mcs < 0 \/ ix + mcs >= shape[1] \/ iz - mcs < 0 \/ iz + mcs >= shape[2]
             THEN sma
             ELSE IF CircleMask(shape, ix, iz, mcs) \cap occupancy # {}
                  THEN sma
                  ELSE SmaLoop(model_cell_sizes, k + 1, mcs, shape, occupancy, ix, iz)

\* "Exclude edges."
ExcludedEdge(shape, ix, iz) ==
    ix = 0 \/ ix = shape[1] - 1 \/ iz = 0 \/ iz = shape[2]

\* "model_names = [m for m in model_sizes if int(model_sizes[m] / cell_size) <= sma]"
ModelNamesFor(model_sizes, cs, sma) ==
    LET kept == SelectSeq(model_sizes, LAMBDA m : IntQuotient(m.size, cs) <= sma)
    IN  [k \in DOMAIN kept |-> kept[k].name]

\* Mutant: a cell can be kept whatever the density is.
SkipOutcomes_Sometimes(density) == { TRUE, FALSE }

\* The outcomes of "self.rng.random() < density": random() is in [0, 1).
SkipOutcomes(density) ==
    IF density <= 0 THEN { FALSE } ELSE IF density >= 100 THEN { TRUE } ELSE { TRUE, FALSE }

\* "if size[0] > size[1]: size = (size[1], size[0])"
SortedSides(size) ==
    IF FCompare(size[1], size[2]) > 0 THEN << size[2], size[1] >> ELSE size

\* "semi_minor_axis = (size[0] if size[0] < size[1] else size[1]) - (cell_size * 2)"
SemiMinorAxis(size, cs) ==
    TheOnly({ FSub(side, twice) :
                 side \in { IF FCompare(size[1], size[2]) < 0 THEN size[1] ELSE size[2] },
                 twice \in { FMul(cs, FFromInt(2)) } })

\* model_sizes, a dict: its entries [name, size] in insertion order.
ModelSizes(valid) ==
    TheOnly({ [i \in DOMAIN keys |->
                  [name |-> keys[i],
                   size |-> DictOf([k \in DOMAIN valid |-> << valid[k].name, valid[k].size >>])[keys[i]]]] :
                 keys \in { DictKeys([k \in DOMAIN valid |-> << valid[k].name >>]) } })

\* The locals of _get_rectangular_arrangement when its loop over the cells
\* starts; size, center and cs are floats.
PackFrame(caller, size, center, categories, density, cs) ==
    TheOnly({ TheOnly({ [caller |-> caller, given_size |-> size, size |-> sz, center |-> center,
                         cell_size |-> cs, density |-> density,
                         shape |-> [axis \in 1..2 |-> CellsAlong(sz[axis], cs)],
                         occupancy_map |-> {},
                         model_sizes |-> ModelSizes(valid),
                         models_and_categories |->
                             DictOf([k \in DOMAIN valid |-> << valid[k].name, valid[k].category >>]),
                         model_cell_sizes |-> ModelCellSizes(valid, cs),
                         k |-> 1, commands |-> << >>, model_categories |-> << >>,
                         placements |-> << >>] :
                           valid \in { ValidModelsFrom(categories, 1, SemiMinorAxis(sz, cs)) } }) :
                 sz \in { SortedSides(size) } })

\* "self.rng.uniform(low, high)" is low + (high - low) * r for a random r of
\* [0, 1); r is a fraction num / den.
Uniform(low, high, r) ==
    TheOnly({ FAdd(low, scaled) :
                 scaled \in { FMul(span, random) :
                                  span \in { FSub(high, low) }, random \in { FLiteral(r) } } })

\* "self.rng.uniform(-cell_size * 0.025, cell_size * 0.025)"
Perturbation(cs, r) ==
    TheOnly({ Uniform(low, high, r) :
                 low \in { FMul(FNeg(cs), by) : by \in { FLiteral(PerturbationScale) } },
                 high \in { FMul(cs, by) : by \in { FLiteral(PerturbationScale) } } })

\* "center_dict[axis] - size[i] / 2 + cell_size"
CenterOffset(center, side, cs) ==
    TheOnly({ FAdd(from, cs) :
                 from \in { FSub(center, half) : half \in { FDiv(side, FFromInt(2)) } } })

\* "(i * cell_size) + self.rng.uniform(...)" and then "+= center_dict[axis] -
\* size[i] / 2 + cell_size"
CellPosition(i, cs, perturbation, center, side) ==
    TheOnly({ FAdd(at, offset) :
                 at \in { FAdd(cell, perturbation) : cell \in { FMul(FFromInt(i), cs) } },
                 offset \in { CenterOffset(center, side, cs) } })

\* "model_size[0] * 0.8"
SurfaceSide(side) == FMul(side, FHundredths(SurfaceScale))

\* "surface_size = (model_size[0] * 0.8, model_size[1] * 0.8)"
SurfaceSize(name) ==
    TheOnly({ << SurfaceSide(model_size[1]), SurfaceSide(model_size[2]) >> :
                 model_size \in { GetSize(name) } })

\* One packing of get_vertical_arrangement: a rectangle of a size with its
\* centre y above the position of the root, and the parameters of the category.
VerticalTask(categories, category, size, y, object_position) ==
    TheOnly({ [size |-> size,
               center |-> Vector3(object_position.x, FAdd(FHundredths(y), object_position.y),
                                  object_position.z),
               categories |-> categories, cell_size |-> params[1], density |-> params[2]] :
                 params \in { GetRectangularArrangementParameters(category) } })

\* The packings of one spatial relation: one for "on_top_of", one per shelf
\* height for "on_shelf".  Every model of a category with shelves has its
\* entry in SHELVES.
VerticalTasksOf(rel, category, name, object_position) ==
    IF category \notin DOMAIN rel.categories THEN << >>
    ELSE IF rel.relation = "on_top_of"
    THEN << VerticalTask(rel.categories[category], category, SurfaceSize(name),
                         ModelRecords[name].top.y, object_position) >>
    ELSE [i \in DOMAIN SHELVES[name].ys |->
             VerticalTask(rel.categories[category], category,
                          << FHundredths(SHELVES[name].size[1]), FHundredths(SHELVES[name].size[2]) >>,
                          SHELVES[name].ys[i], object_position)]

\* The list of packings get_vertical_arrangement makes for a root, in the
\* order of the spatial relations.  The local list "categories" of the method
\* is written and never read; it has no counterpart here.
RECURSIVE VerticalTasksFrom(_, _, _, _)
VerticalTasksFrom(k, category, name, object_position) ==
    IF k > Len(VERTICAL_SPATIAL_RELATIONS) THEN << >>
    ELSE VerticalTasksOf(VERTICAL_SPATIAL_RELATIONS[k], category, name, object_position)
             \o VerticalTasksFrom(k + 1, category, name, object_position)

\* "bound + ProcGenObjectArranger._WALL_DEPTH + 0.4"
AnchorAbove(bound) ==
    TheOnly({ FAdd(behind, FHundredths(WallClearance)) :
                 behind \in { FAdd(FHundredths(bound), FHundredths(WALL_DEPTH)) } })

\* "bound - ProcGenObjectArranger._WALL_DEPTH - 0.4"
AnchorBelow(bound) ==
    TheOnly({ FSub(behind, FHundredths(WallClearance)) :
                 behind \in { FSub(FHundredths(bound), FHundredths(WALL_DEPTH)) } })

\* The anchor, direction and rotation get_lateral_arrangement starts from.
LateralStart(wall, room) ==
    CASE wall = "north" ->
           [position |-> Vector3(AnchorAbove(room.x_min), FZero, AnchorBelow(room.z_max)),
            direction |-> << 1, 0 >>, rotation |-> 0]
      [] wall = "south" ->
           [position |-> Vector3(AnchorAbove(room.x_min), FZero, AnchorAbove(room.z_min)),
            direction |-> << 1, 0 >>, rotation |-> 180]
      [] wall = "west" ->
           [position |-> Vector3(AnchorBelow(room.x_max), FZero, AnchorAbove(room.z_min)),
            direction |-> << 0, 1 >>, rotation |-> 90]
      [] wall = "east" ->
           [position |-> Vector3(AnchorAbove(room.x_min), FZero, AnchorAbove(room.z_min)),
            direction |-> << 0, 1 >>, rotation |-> 270]

\* "position[axis] += size[i] * direction[i]"
Advance(at, side, direction) ==
    TheOnly({ FAdd(at, by) : by \in { FMul(side, FFromInt(direction)) } })

\* Mutant: a category that was placed stays in the list.
RemainingCategories_Unfiltered(room_type, used_categories) ==
    ROOM_TYPE_LATERAL_SPATIAL_RELATIONS[room_type]

\* "categories = [c for c in categories if c not in used_categories]"
RemainingCategories(room_type, used_categories) ==
    SelectSeq(ROOM_TYPE_LATERAL_SPATIAL_RELATIONS[room_type],
              LAMBDA c : c \notin Range(used_categories))

(***************************************************************************)
(* The inputs of the calls on the arranger.                                *)
(***************************************************************************)
\* The arguments of the direct calls of _get_rectangular_arrangement; lengths
\* are decimal literals.
PackSizes == { << 50, 70 >>, << 70, 50 >>, << 20, 50 >>, << 60, 60 >>, << 70, 70 >>, << 100, 50 >> }
PackCellSizes == { 10 }
PackDensities == { 0, 40, 100 }
PackCategories == { << "cup" >>, << "cup", "plate" >>, << "plate", "lamp" >>, << "lamp" >>, << >> }
PackCenters == { Vector3(100, 90, 100) }
\* The numbers self.rng.random() returns in uniform(), as fractions.
UniformDraws == { [num |-> 1, den |-> 4] }

\* The arguments of the direct calls of get_vertical_arrangement.
VerticalCategories == { "kitchen_counter", "refrigerator", "shelf", "lamp" }
VerticalPositions == { Vector3(100, 0, 100), Vector3(15, 0, 100), Vector3(250, 0, 60) }
VerticalRotations == { 0, 90 }
Regions == { 0, 1 }

\* The arguments of the calls of get_lateral_arrangement.
Walls == { "north", "south", "west", "east" }
RoomTypes == DOMAIN ROOM_TYPE_LATERAL_SPATIAL_RELATIONS

(***************************************************************************)
(* The state machine of the arranger.  A call runs in steps: pg_pc tells   *)
(* which loop of which method runs next, and an exception that escapes     *)
(* unwinds every call under way.                                           *)
(***************************************************************************)
NoReturn == [op |-> "none", value |-> "None"]

NoVertical == [caller |-> "none", category |-> "", position |-> Vector3(FZero, FZero, FZero),
               rotation |-> 0, region |-> 0]

NoLateral == [wall |-> "", room_type |-> "", room_id |-> 0, attempts |-> << >>,
              result |-> "none"]

InitArr ==
    /\ pg_initialized = FALSE
    /\ pg_scene_bounds = None
    /\ pg_commands = << >>
    /\ pg_next_id = 0
    /\ pg_pc = "idle"
    /\ pg_lat = None
    /\ pg_vert = None
    /\ pg_pack = None
    /\ pg_ret = NoReturn
    /\ pg_raised = "none"
    /\ pg_last = "init"
    /\ pg_hist = [vert |-> NoVertical, lat |-> NoLateral]

\* The history of the lateral call when an exception escapes from it.
LateralRaised(lat_hist, e) ==
    IF lat_hist.result = "running" THEN [lat_hist EXCEPT !.result = e] ELSE lat_hist

\* An exception escapes from the calls under way.
Raise(e) ==
    /\ pg_raised' = e
    /\ pg_pc' = "idle"
    /\ pg_lat' = None
    /\ pg_vert' = None
    /\ pg_pack' = None
    /\ pg_ret' = NoReturn
    /\ pg_hist' = [pg_hist EXCEPT !.lat = LateralRaised(pg_hist.lat, e)]
    /\ UNCHANGED << pg_initialized, pg_scene_bounds, pg_commands, pg_next_id, pg_last >>

\* One Controller.communicate() call: an add-on that is not initialized is
\* initialized, the queued commands of an initialized one are sent and cleared,
\* and on_send(resp) sets the scene bounds if there are none.
PgCommunicate ==
    /\ pg_pc = "idle"
    /\ \E rooms \in SceneRooms :
         pg_scene_bounds' = IF pg_scene_bounds = None THEN [rooms |-> rooms]
                            ELSE pg_scene_bounds
    /\ pg_initialized' = TRUE
    /\ pg_commands' = IF pg_initialized THEN << >> ELSE pg_commands
    /\ pg_next_id' = pg_next_id
    /\ pg_ret' = NoReturn
    /\ pg_raised' = "none"
    /\ pg_last' = "communicate"
    /\ pg_hist' = [vert |-> NoVertical, lat |-> NoLateral]
    /\ UNCHANGED << pg_pc, pg_lat, pg_vert, pg_pack >>
    /\ UNCHANGED notarr

\* ProcGenObjectArranger.reset()
PgReset ==
    /\ pg_pc = "idle"
    /\ pg_initialized' = FALSE
    /\ pg_scene_bounds' = None
    /\ pg_raised' = "none"
    /\ pg_last' = "reset"
    /\ UNCHANGED << pg_commands, pg_next_id, pg_pc, pg_lat, pg_vert, pg_pack, pg_ret, pg_hist >>
    /\ UNCHANGED notarr

\* Controller.get_unique_id() hands out ids that are not in use: at the start
\* of a call, the first id above the ids of the queued commands.
FreshId(commands) ==
    LET ids == { commands[k].id : k \in DOMAIN commands }
    IN  IF ids = {} THEN 0 ELSE 1 + (CHOOSE i \in ids : \A j \in ids : j <= i)

\* A call of a method of the add-on can start: no call is under way.
CanCall == pg_pc = "idle"

\* get_vertical_arrangement(category, position, rotation, region) up to the
\* choice of the root object; lat and lat_hist are the locals and the history
\* of the lateral call that makes the call, if there is one.
VerticalCall(caller, category, position, rotation, region, next_id, lat, lat_hist) ==
    LET vh == [caller |-> caller, category |-> category, position |-> position,
               rotation |-> rotation, region |-> region]
        raised == IF category \notin DOMAIN MODEL_CATEGORIES THEN "AssertionError"
                  ELSE IF pg_scene_bounds = None THEN "AttributeError"
                  ELSE IF region + 1 \notin DOMAIN pg_scene_bounds.rooms THEN "IndexError"
                  ELSE "none"
    IN  /\ pg_raised' = raised
        /\ pg_pack' = None
        /\ UNCHANGED << pg_initialized, pg_scene_bounds, pg_commands >>
        /\ IF raised # "none"
           THEN /\ pg_pc' = "idle"
                /\ pg_lat' = None
                /\ pg_vert' = None
                /\ pg_ret' = NoReturn
                /\ pg_next_id' = next_id
                /\ pg_hist' = [vert |-> vh, lat |-> LateralRaised(lat_hist, raised)]
           ELSE \E fits \in { ModelsThatFitInRegion(MODEL_CATEGORIES[category], position,
                                                       pg_scene_bounds.rooms[region + 1]) } :
                    /\ pg_lat' = lat
                    /\ pg_hist' = [vert |-> vh, lat |-> lat_hist]
                    /\ IF fits = {}
                       THEN /\ pg_vert' = None
                            /\ pg_ret' = [op |-> "get_vertical_arrangement", value |-> "None"]
                            /\ pg_pc' = IF caller = "lateral" THEN "lat_ret" ELSE "idle"
                            /\ pg_next_id' = next_id
                       ELSE \E name \in fits :
                            /\ pg_vert' = [caller |-> caller, category |-> category,
                                           object_position |-> position,
                                           rotation |-> rotation, record |-> name,
                                           root_object_id |-> next_id,
                                           commands |-> AddPhysicsObject(name, position, next_id),
                                           tasks |-> VerticalTasksFrom(1, category, name, position)]
                            /\ pg_ret' = NoReturn
                            /\ pg_pc' = "vert_task"
                            /\ pg_next_id' = next_id + 1

\* A direct call of get_vertical_arrangement.
CallVertical ==
    /\ CanCall
    /\ pg_last' = "get_vertical_arrangement"
    /\ \E category \in VerticalCategories, position \in VerticalPositions,
          rotation \in VerticalRotations, region \in Regions :
         \E at \in { FVector3(position) } :
           VerticalCall("top", category, at, rotation, region, FreshId(pg_commands),
                        None, NoLateral)
    /\ UNCHANGED notarr

\* get_vertical_arrangement after the root object was added: the next packing
\* of the spatial relations of the category or, after the last one, the
\* rotation commands, "self.commands.extend(commands)" and the return.
VertTask ==
    /\ pg_pc = "vert_task"
    /\ IF pg_vert.tasks # << >>
       THEN LET t == Head(pg_vert.tasks)
            IN  /\ pg_pack' = PackFrame("vertical", t.size, t.center, t.categories,
                                        t.density, t.cell_size)
                /\ pg_vert' = [pg_vert EXCEPT !.tasks = Tail(pg_vert.tasks)]
                /\ pg_pc' = "pack_loop"
                /\ UNCHANGED << pg_commands, pg_ret >>
       ELSE LET rotate_commands == GetRotationCommands(pg_vert.root_object_id,
                                                       pg_vert.rotation, pg_vert.commands)
            IN  /\ pg_commands' = pg_commands \o pg_vert.commands \o rotate_commands
                /\ pg_ret' = [op |-> "get_vertical_arrangement", value |-> pg_vert.record]
                /\ pg_vert' = None
                /\ pg_pack' = None
                /\ pg_pc' = IF pg_vert.caller = "lateral" THEN "lat_ret" ELSE "idle"
    /\ UNCHANGED << pg_initialized, pg_scene_bounds, pg_next_id, pg_lat, pg_raised,
                    pg_last, pg_hist >>
    /\ UNCHANGED notarr

\* A direct call of _get_rectangular_arrangement(size, center, categories,
\* density, cell_size), up to the start of its loop over the cells.
CallPack ==
    /\ CanCall
    /\ pg_last' = "_get_rectangular_arrangement"
    /\ pg_raised' = "none"
    /\ \E size \in PackSizes, center \in PackCenters, categories \in PackCategories,
          density \in PackDensities, cs \in PackCellSizes :
         \E sides \in { << FHundredths(size[1]), FHundredths(size[2]) >> },
            at \in { FVector3(center) }, cell \in { FHundredths(cs) } :
           pg_pack' = PackFrame("top", sides, at, categories, density, cell)
    /\ pg_pc' = "pack_loop"
    /\ pg_ret' = NoReturn
    /\ pg_next_id' = FreshId(pg_commands)
    /\ pg_hist' = [vert |-> NoVertical, lat |-> NoLateral]
    /\ UNCHANGED << pg_initialized, pg_scene_bounds, pg_commands, pg_lat, pg_vert >>
    /\ UNCHANGED notarr

\* The loop of _get_rectangular_arrangement goes on to the next cell.
PackContinue ==
    /\ pg_pack' = [pg_pack EXCEPT !.k = pg_pack.k + 1]
    /\ UNCHANGED << pg_initialized, pg_scene_bounds, pg_commands, pg_next_id, pg_pc, pg_lat,
                    pg_vert, pg_ret, pg_raised, pg_last, pg_hist >>

\* The loop of _get_rectangular_arrangement adds model_name at (ix, iz) with
\* radius sma, at a position perturbed by two random draws.  The random yaw
\* of the object is not part of the command of the model.
PackPlace(ix, iz, sma, model_name) ==
    LET f == pg_pack
    IN  \E rx \in UniformDraws, rz \in UniformDraws :
        \E ux \in { Perturbation(f.cell_size, rx) }, uz \in { Perturbation(f.cell_size, rz) } :
        \E x \in { CellPosition(ix, f.cell_size, ux, f.center.x, f.size[1]) },
           z \in { CellPosition(iz, f.cell_size, uz, f.center.z, f.size[2]) } :
        /\ pg_pack' = [f EXCEPT
                         !.k = f.k + 1,
                         !.commands = f.commands
                                      \o AddPhysicsObject(model_name, Vector3(x, f.center.y, z),
                                                          pg_next_id),
                         !.model_categories = Append(f.model_categories,
                                                     f.models_and_categories[model_name]),
                         !.occupancy_map = f.occupancy_map \cup CircleMask(f.shape, ix, iz, sma),
                         !.placements = Append(f.placements,
                                               [ix |-> ix, iz |-> iz, sma |-> sma,
                                                model_name |-> model_name])]
        /\ pg_next_id' = pg_next_id + 1
        /\ UNCHANGED << pg_initialized, pg_scene_bounds, pg_commands, pg_pc, pg_lat, pg_vert,
                        pg_ret, pg_raised, pg_last, pg_hist >>

\* One iteration of "for ix, iz in np.ndindex(occupancy_map.shape)".
PackIter ==
    /\ pg_pc = "pack_loop"
    /\ pg_pack.k <= pg_pack.shape[1] * pg_pack.shape[2]
    /\ LET f == pg_pack
           ix == NdIndexAt(f.shape, f.k)[1]
           iz == NdIndexAt(f.shape, f.k)[2]
       IN  IF ExcludedEdge(f.shape, ix, iz) \/ << ix, iz >> \in f.occupancy_map
           THEN PackContinue
           ELSE \E skip \in SkipOutcomes(f.density) :
                  IF skip THEN PackContinue
                  ELSE IF f.model_cell_sizes = << >> THEN Raise("IndexError")
                  ELSE \E sma \in { SmaLoop(f.model_cell_sizes, 1, f.model_cell_sizes[1],
                                               f.shape, f.occupancy_map, ix, iz) } :
                       \E model_names \in { ModelNamesFor(f.model_sizes, f.cell_size, sma) } :
                           IF model_names = << >> THEN PackContinue
                           ELSE \E n \in DOMAIN model_names :
                                  PackPlace(ix, iz, sma, model_names[n])
    /\ UNCHANGED notarr

\* "return commands, list(set(model_categories))": to get_vertical_arrangement,
\* which extends its commands, or to the caller of the add-on.
PackReturn ==
    /\ pg_pc = "pack_loop"
    /\ pg_pack.k > pg_pack.shape[1] * pg_pack.shape[2]
    /\ pg_pack' = None
    /\ IF pg_pack.caller = "vertical"
       THEN /\ pg_vert' = [pg_vert EXCEPT !.commands = pg_vert.commands \o pg_pack.commands]
            /\ pg_pc' = "vert_task"
            /\ pg_ret' = pg_ret
       ELSE /\ pg_vert' = pg_vert
            /\ pg_pc' = "idle"
            /\ pg_ret' = [op |-> "_get_rectangular_arrangement",
                          value |-> [commands |-> pg_pack.commands,
                                     categories |-> Range(pg_pack.model_categories),
                                     placements |-> pg_pack.placements]]
    /\ UNCHANGED << pg_initialized, pg_scene_bounds, pg_commands, pg_next_id, pg_lat,
                    pg_raised, pg_last, pg_hist >>
    /\ UNCHANGED notarr

\* get_lateral_arrangement(wall, room_type, room_id) up to its while loop.
CallLateral ==
    /\ CanCall
    /\ pg_last' = "get_lateral_arrangement"
    /\ \E wall \in Walls, room_type \in RoomTypes, room_id \in Regions :
         LET lh == [wall |-> wall, room_type |-> room_type, room_id |-> room_id,
                    attempts |-> << >>, result |-> "running"]
         IN  IF pg_scene_bounds = None
             THEN /\ pg_raised' = "AttributeError"
                  /\ pg_hist' = [vert |-> NoVertical, lat |-> [lh EXCEPT !.result = "AttributeError"]]
                  /\ pg_ret' = NoReturn
                  /\ UNCHANGED << pg_pc, pg_lat >>
             ELSE IF room_id + 1 \notin DOMAIN pg_scene_bounds.rooms
             THEN /\ pg_raised' = "IndexError"
                  /\ pg_hist' = [vert |-> NoVertical, lat |-> [lh EXCEPT !.result = "IndexError"]]
                  /\ pg_ret' = NoReturn
                  /\ UNCHANGED << pg_pc, pg_lat >>
             ELSE \E start \in { LateralStart(wall, pg_scene_bounds.rooms[room_id + 1]) } :
                      /\ pg_raised' = "none"
                      /\ pg_hist' = [vert |-> NoVertical, lat |-> lh]
                      /\ pg_lat' = [room_type |-> room_type, position |-> start.position,
                                    direction |-> start.direction,
                                    rotation |-> start.rotation,
                                    used_categories |-> << >>, categories |-> << >>,
                                    category |-> ""]
                      /\ pg_pc' = "lat_iter"
                      /\ pg_ret' = NoReturn
    /\ pg_next_id' = FreshId(pg_commands)
    /\ UNCHANGED << pg_initialized, pg_scene_bounds, pg_commands, pg_vert, pg_pack >>
    /\ UNCHANGED notarr

\* get_lateral_arrangement returns.
LateralReturn ==
    /\ pg_pc' = "idle"
    /\ pg_lat' = None
    /\ pg_ret' = [op |-> "get_lateral_arrangement", value |-> "None"]
    /\ pg_hist' = [pg_hist EXCEPT !.lat.result = "returned"]
    /\ UNCHANGED << pg_initialized, pg_scene_bounds, pg_commands, pg_next_id, pg_vert,
                    pg_pack, pg_raised, pg_last >>

\* The head of "while not done": the categories not used yet; with none
\* of them the for loop has nothing to try and the call is done.
LatIter ==
    /\ pg_pc = "lat_iter"
    /\ LET categories == RemainingCategories(pg_lat.room_type, pg_lat.used_categories)
       IN  IF categories = << >>
           THEN LateralReturn
           ELSE /\ pg_lat' = [pg_lat EXCEPT !.categories = categories]
                /\ pg_pc' = "lat_try"
                /\ UNCHANGED << pg_initialized, pg_scene_bounds, pg_commands, pg_next_id,
                                pg_vert, pg_pack, pg_ret, pg_raised, pg_last, pg_hist >>
    /\ UNCHANGED notarr

\* The list without its k-th element.
RemoveAt(s, k) == [i \in 1..(Len(s) - 1) |-> IF i < k THEN s[i] ELSE s[i + 1]]

\* One iteration of "for category in categories": the categories were
\* shuffled, so the next one is any of those not tried yet; the call of
\* get_vertical_arrangement is made without a region.
LatTry ==
    /\ pg_pc = "lat_try"
    /\ \E k \in DOMAIN pg_lat.categories :
         LET category == pg_lat.categories[k]
             rot == IF category # Repeatable THEN pg_lat.rotation - 180 ELSE pg_lat.rotation
         IN  VerticalCall("lateral", category,
                          Vector3(pg_lat.position.x, pg_lat.position.y, pg_lat.position.z),
                          rot, 0, pg_next_id,
                          [pg_lat EXCEPT !.categories = RemoveAt(pg_lat.categories, k),
                                         !.category = category],
                          [pg_hist.lat EXCEPT
                             !.attempts = Append(pg_hist.lat.attempts,
                                                 [category |-> category, record |-> "None"])])
    /\ UNCHANGED pg_last
    /\ UNCHANGED notarr

\* The rest of the iteration once get_vertical_arrangement returned: a
\* record ends the for loop and moves the anchor; None goes on to the next
\* category, and after the last one the call is done.
LatRet ==
    /\ pg_pc = "lat_ret"
    /\ LET record == pg_ret.value
           n == Len(pg_hist.lat.attempts)
       IN  IF record # "None"
           THEN LET category == pg_lat.category
                    position == pg_lat.position
                IN  \E size \in { GetSize(record) } :
                    /\ pg_lat' = [pg_lat EXCEPT
                                    !.used_categories =
                                        IF category # Repeatable
                                        THEN Append(pg_lat.used_categories, category)
                                        ELSE pg_lat.used_categories,
                                    !.position =
                                        IF pg_lat.direction[1] # 0
                                        THEN [position EXCEPT
                                                !.x = Advance(position.x, size[1],
                                                              pg_lat.direction[1])]
                                        ELSE IF pg_lat.direction[2] # 0
                                        THEN [position EXCEPT
                                                !.z = Advance(position.z, size[2],
                                                              pg_lat.direction[2])]
                                        ELSE position]
                    /\ pg_pc' = "lat_iter"
                    /\ pg_hist' = [pg_hist EXCEPT !.lat.attempts[n].record = record]
                    /\ UNCHANGED << pg_initialized, pg_scene_bounds, pg_commands, pg_next_id,
                                    pg_vert, pg_pack, pg_ret, pg_raised, pg_last >>
           ELSE IF pg_lat.categories = << >>
           THEN LateralReturn
           ELSE /\ pg_pc' = "lat_try"
                /\ UNCHANGED << pg_initialized, pg_scene_bounds, pg_commands, pg_next_id,
                                pg_lat, pg_vert, pg_pack, pg_ret, pg_raised, pg_last, pg_hist >>
    /\ UNCHANGED notarr

\* The user code calls a method of the add-on once the commands of the call
\* before were sent by communicate.
Sent == pg_commands = << >> /\ pg_ret = NoReturn

NextArr ==
    \/ PgCommunicate
    \/ PgReset
    \/ Sent /\ CallPack
    \/ Sent /\ CallVertical
    \/ Sent /\ CallLateral
    \/ VertTask
    \/ PackIter
    \/ PackReturn
    \/ LatIter
    \/ LatTry
    \/ LatRet

(***************************************************************************)
(* The occupancy map's geometry in floats: the scene bounds of the first   *)
(* response, the loop counts of generate, the shape of the grid built by   *)
(* the next on_send, and get_occupancy_position.                           *)
(***************************************************************************)
\* Scene bounds the build reports (metres) and cell sizes passed to generate:
\* 0.5 is the default, 0.49 the size of the docstrings' example.
FloatSceneBounds ==
    { [x_min |-> -1, x_max |-> 0, z_min |-> 0, z_max |-> 1],
      [x_min |-> 1, x_max |-> 2, z_min |-> -1, z_max |-> 0] }

CellSizeLiterals ==
    { [num |-> 1, den |-> 2], [num |-> 49, den |-> 100], [num |-> 1, den |-> 10] }

FloatCellSizes == { FLiteral(q) : q \in CellSizeLiterals }

\* "x = x_min; idx = 0; while x < x_max: ...; x += self._cell_size; idx += 1"
RECURSIVE FWhileCount(_, _, _, _)
FWhileCount(x, hi, cs, n) ==
    IF FLess(x, hi) THEN FWhileCount(FAdd(x, cs), hi, cs, n + 1) ELSE n

\* "return self.scene_bounds.x_min + (i * self._cell_size),
\*         self.scene_bounds.z_min + (j * self._cell_size)"
FGetOccupancyPosition(i, j) ==
    << FAdd(FFromInt(fp_scene_bounds.x_min), FMul(FFromInt(i), fp_cell_size)),
       FAdd(FFromInt(fp_scene_bounds.z_min), FMul(FFromInt(j), fp_cell_size)) >>

InitFloat ==
    /\ fp_scene_bounds = None
    /\ fp_cell_size = FFromInt(-1)
    /\ fp_size = << 0, 0 >>
    /\ fp_shape = None
    /\ fp_ret = None

\* communicate: on_send stores the scene bounds of the first response and, when
\* there is no grid, builds one of shape size + 1 (its cells are not kept here).
FpCommunicate ==
    /\ \E sb \in FloatSceneBounds :
           fp_scene_bounds' = IF fp_scene_bounds = None THEN sb ELSE fp_scene_bounds
    /\ fp_shape' = IF fp_shape = None THEN << fp_size[1] + 1, fp_size[2] + 1 >>
                   ELSE fp_shape
    /\ fp_ret' = None
    /\ UNCHANGED << fp_cell_size, fp_size >>
    /\ UNCHANGED notfp

\* generate(cell_size) once the add-on is initialized (before, it returns at
\* once).  z is reset for every x, so idz is the count of the last column.
FpGenerate ==
    /\ fp_scene_bounds # None
    /\ \E cs \in FloatCellSizes :
           LET idx == FWhileCount(FFromInt(fp_scene_bounds.x_min),
                                  FFromInt(fp_scene_bounds.x_max), cs, 0)
               idz == FWhileCount(FFromInt(fp_scene_bounds.z_min),
                                  FFromInt(fp_scene_bounds.z_max), cs, 0)
           IN  /\ fp_cell_size' = cs
               /\ fp_size' = << idx, IF idx = 0 THEN 0 ELSE idz >>
    /\ fp_shape' = None
    /\ fp_ret' = None
    /\ UNCHANGED fp_scene_bounds
    /\ UNCHANGED notfp

\* get_occupancy_position(i, j) for an index of the grid.
FpGetOccupancyPosition ==
    /\ fp_shape # None
    /\ \E i \in 0..(fp_shape[1] - 1), j \in 0..(fp_shape[2] - 1) :
           fp_ret' = [i |-> i, j |-> j, value |-> FGetOccupancyPosition(i, j)]
    /\ UNCHANGED << fp_scene_bounds, fp_cell_size, fp_size, fp_shape >>
    /\ UNCHANGED notfp

NextFloat == FpCommunicate \/ FpGenerate \/ FpGetOccupancyPosition

(***************************************************************************)
(* ContainerManager (container_manager.py), a TriggerCollisionManager: it   *)
(* registers trigger colliders on container objects and rebuilds, on every *)
(* step, the containment events from the step's trigger collisions.  The   *)
(* base class (trigger_ids, collisions, the add_trigger_collider command)  *)
(* and the CONTAINERS catalog are outside the sources given and follow     *)
(* their use in container_manager.py.                                      *)
(***************************************************************************)
\* Bounds: collisions in one response, triggers registered when the user code
\* adds one more collider by hand.
MaxCollisions == 2

MaxTriggers == 1

\* A model name is the sequence of its characters.
UpperCase ==
    << "A", "B", "C", "D", "E", "F", "G", "H", "I", "J", "K", "L", "M",
       "N", "O", "P", "Q", "R", "S", "T", "U", "V", "W", "X", "Y", "Z" >>

LowerCase ==
    << "a", "b", "c", "d", "e", "f", "g", "h", "i", "j", "k", "l", "m",
       "n", "o", "p", "q", "r", "s", "t", "u", "v", "w", "x", "y", "z" >>

LowerChar(c) ==
    IF \E i \in DOMAIN UpperCase : UpperCase[i] = c
    THEN LowerCase[CHOOSE i \in DOMAIN UpperCase : UpperCase[i] = c]
    ELSE c

\* str.lower()
Lower(name) == [i \in DOMAIN name |-> LowerChar(name[i])]

\* A trigger id of the build that this manager never registered.
ForeignTriggerId == 99

\* CONTAINERS: model name -> trigger colliders of the model.
CONTAINERS ==
    << [name |-> << "b", "a", "s", "k", "e", "t" >>,
        colliders |-> << [shape |-> "box", tag |-> "inside"] >>],
       [name |-> << "t", "a", "b", "l", "e" >>,
        colliders |-> << [shape |-> "cylinder", tag |-> "on"],
                         [shape |-> "box", tag |-> "inside"] >>] >>

\* SegmentationColors output data: object ids and model names, which the build
\* reports in the case of the model library.  The build sends them in answer to
\* send_segmentation_colors, the initialization command; another response
\* carries none (None).
SegmentationColors ==
    { << [object_id |-> 1, name |-> << "B", "a", "s", "k", "e", "t" >>],
         [object_id |-> 2, name |-> << "c", "u", "b", "e" >>] >>,
      << [object_id |-> 1, name |-> << "C", "u", "b", "e" >>],
         [object_id |-> 2, name |-> << "t", "a", "b", "l", "e" >>] >> }

\* Objects that enter triggers, and the states of a trigger collision.
ColliderIds == { 3, 4 }

TriggerStates == { "enter", "stay", "exit" }

\* The object a trigger of the build is attached to.
TriggerOwner(trigger_ids, t) == IF t \in DOMAIN trigger_ids THEN trigger_ids[t] ELSE 2

\* The trigger collisions a response can carry, in order.
TriggerCollisions(trigger_ids) ==
    [trigger_id : DOMAIN trigger_ids \cup { ForeignTriggerId },
     collider_id : ColliderIds, state : TriggerStates]

RECURSIVE CollisionLists(_, _)
CollisionLists(S, n) ==
    IF n = 0 THEN { << >> }
    ELSE LET shorter == CollisionLists(S, n - 1)
         IN  shorter \cup { Append(l, c) : l \in { x \in shorter : Len(x) = n - 1 }, c \in S }

WithOwner(trigger_ids, c) ==
    [trigger_id |-> c.trigger_id, collider_id |-> c.collider_id,
     collidee_id |-> TriggerOwner(trigger_ids, c.trigger_id), state |-> c.state]

ConResponses(initialized, trigger_ids) ==
    { [segm |-> sg, trco |-> [k \in DOMAIN l |-> WithOwner(trigger_ids, l[k])]] :
          sg \in IF initialized THEN { None } ELSE SegmentationColors \cup { None },
          l \in CollisionLists(TriggerCollisions(trigger_ids), MaxCollisions) }

\* dict[key] = value
Put(d, key, value) == [x \in DOMAIN d \cup { key } |-> IF x = key THEN value ELSE d[x]]

EmptyDict == [x \in {} |-> None]

\* Controller.get_unique_id(): an id not in use.
RECURSIVE FreshTriggerIdFrom(_, _)
FreshTriggerIdFrom(trigger_ids, t) ==
    IF t \in DOMAIN trigger_ids THEN FreshTriggerIdFrom(trigger_ids, t + 1) ELSE t

FreshTriggerId(trigger_ids) == FreshTriggerIdFrom(trigger_ids, 1)

\* add_box_collider / add_cylinder_collider / add_sphere_collider on the record
\* reg = [trigger_ids, tags, commands]: the base class picks the id, registers
\* it and queues the command; the manager remembers the tag.
AddCollider(reg, object_id, shape, trigger_id, tag) ==
    LET t == IF trigger_id = None THEN FreshTriggerId(reg.trigger_ids) ELSE trigger_id
    IN  [trigger_ids |-> Put(reg.trigger_ids, t, object_id),
         tags |-> Put(reg.tags, t, tag),
         commands |-> Append(reg.commands,
                             [type |-> "add_trigger_collider", id |-> object_id,
                              shape |-> shape, trigger_id |-> t])]

ContainerData(name) ==
    LET hits == { k \in DOMAIN CONTAINERS : CONTAINERS[k].name = name }
    IN  IF hits = {} THEN << >> ELSE CONTAINERS[CHOOSE k \in hits : TRUE].colliders

\* "for trigger_collider_data in CONTAINERS[model_name]: self.add_..._collider"
RECURSIVE AddColliders(_, _, _, _)
AddColliders(reg, object_id, data, k) ==
    IF k > Len(data) THEN reg
    ELSE AddColliders(AddCollider(reg, object_id, data[k].shape, None, data[k].tag),
                      object_id, data, k + 1)

\* "for j in range(segmentation_colors.get_num())": the model name is lowered
\* before it is looked up in CONTAINERS.
RECURSIVE AddContainers(_, _, _)
AddContainers(reg, segm, j) ==
    IF j > Len(segm) THEN reg
    ELSE AddContainers(AddColliders(reg, segm[j].object_id,
                                    ContainerData(Lower(segm[j].name)), 1),
                       segm, j + 1)

\* "trigger_collision.trigger_id in self.trigger_ids and
\*  (trigger_collision.state == "enter" or trigger_collision.state == "stay")"
IsContainment(trigger_ids, c) ==
    /\ c.trigger_id \in DOMAIN trigger_ids
    /\ (c.state = "enter" \/ c.state = "stay")

\* "collider_id not in self.events[collidee_id]": the list holds ContainmentEvent
\* objects, which define no __eq__, so an int never equals one of them.
IntEqualsEvent(n, e) == FALSE

ColliderIn(collider_id, list) == \E k \in DOMAIN list : IntEqualsEvent(collider_id, list[k])

ContainmentEvent(container_id, object_id, tag) ==
    [container_id |-> container_id, object_id |-> object_id, tag |-> tag]

\* Mutant: the events of the step before are kept.
ClearedEvents_Kept(events) == events

\* "self.events.clear()"
ClearedEvents(events) == EmptyDict

\* "for trigger_collision in self.collisions: ..." from collision k on.
RECURSIVE RecordEvents(_, _, _, _, _)
RecordEvents(events, collisions, k, trigger_ids, tags) ==
    IF k > Len(collisions) THEN events
    ELSE LET c == collisions[k]
             had == IF c.collidee_id \in DOMAIN events THEN events[c.collidee_id] ELSE << >>
             now == IF ColliderIn(c.collider_id, had) THEN had
                    ELSE Append(had, ContainmentEvent(c.collidee_id, c.collider_id,
                                                      tags[c.trigger_id]))
         IN  IF IsContainment(trigger_ids, c)
             THEN RecordEvents(Put(events, c.collidee_id, now), collisions, k + 1,
                               trigger_ids, tags)
             ELSE RecordEvents(events, collisions, k + 1, trigger_ids, tags)

InitCon ==
    /\ cm_initialized = FALSE
    /\ cm_commands = << >>
    /\ cm_getting_model_names = TRUE
    /\ cm_trigger_ids = EmptyDict
    /\ cm_tags = EmptyDict
    /\ cm_collisions = << >>
    /\ cm_events = EmptyDict
    /\ cm_last = "init"

\* One Controller.communicate() call: an add-on that is not initialized is
\* initialized and keeps its queue, the queued commands of an initialized one
\* are sent and cleared, and on_send(resp) runs; on_send never clears
\* self.commands, the colliders it adds are appended to the queue.
ConCommunicate ==
    \E resp \in ConResponses(cm_initialized, cm_trigger_ids) :
        LET reg0 == [trigger_ids |-> cm_trigger_ids, tags |-> cm_tags,
                     commands |-> IF cm_initialized THEN << >> ELSE cm_commands]
            reg == IF cm_getting_model_names /\ resp.segm # None
                   THEN AddContainers(reg0, resp.segm, 1) ELSE reg0
        IN  /\ cm_initialized' = TRUE
            /\ cm_getting_model_names' = FALSE
            /\ cm_trigger_ids' = reg.trigger_ids
            /\ cm_tags' = reg.tags
            /\ cm_commands' = reg.commands
            /\ cm_collisions' = resp.trco
            /\ cm_events' = RecordEvents(ClearedEvents(cm_events), resp.trco, 1,
                                         reg.trigger_ids, reg.tags)
            /\ cm_last' = "communicate"
            /\ UNCHANGED notcm

\* A call of add_box_collider, add_cylinder_collider or add_sphere_collider.
ConAddCollider ==
    /\ \E object_id \in { 1, 2 }, shape \in { "box", "cylinder", "sphere" },
          tag \in { "on", "inside" } :
           LET reg == AddCollider([trigger_ids |-> cm_trigger_ids, tags |-> cm_tags,
                                   commands |-> cm_commands],
                                  object_id, shape, None, tag)
           IN  /\ cm_trigger_ids' = reg.trigger_ids
               /\ cm_tags' = reg.tags
               /\ cm_commands' = reg.commands
    /\ cm_last' = "add_collider"
    /\ UNCHANGED << cm_initialized, cm_getting_model_names, cm_collisions, cm_events >>
    /\ UNCHANGED notcm

\* reset(): the base class forgets its triggers, collisions and commands and
\* is to be initialized again.
ConReset ==
    /\ cm_initialized' = FALSE
    /\ cm_commands' = << >>
    /\ cm_trigger_ids' = EmptyDict
    /\ cm_collisions' = << >>
    /\ cm_getting_model_names' = TRUE
    /\ cm_events' = EmptyDict
    /\ cm_tags' = EmptyDict
    /\ cm_last' = "reset"
    /\ UNCHANGED notcm

\* The user code adds a collider by hand while fewer than MaxTriggers triggers
\* are registered.
TriggersOpen == Cardinality(DOMAIN cm_trigger_ids) < MaxTriggers

NextCon ==
    \/ ConCommunicate
    \/ TriggersOpen /\ ConAddCollider
    \/ ConReset
(***************************************************************************)
(* The specifications: the add-ons start as constructed; SpecMap runs the  *)
(* occupancy map, SpecArr the arranger, SpecFloat the occupancy map's      *)
(* geometry in floats, SpecCon the container manager.                      *)
(***************************************************************************)
Init == InitMap /\ InitArr /\ InitFloat /\ InitCon

SpecMap == Init /\ [][NextMap]_vars

SpecArr == Init /\ [][NextArr]_vars

SpecFloat == Init /\ [][NextFloat]_vars

SpecCon == Init /\ [][NextCon]_vars


(***************************************************************************)
(* Vocabulary of the properties of the occupancy map.                      *)
(***************************************************************************)
\* A grid exists and the on_send that built it ran to its end.
GridBuilt == occupancy_map # None /\ om_build.raised = "none"

\* The outermost ring of a grid: first or last row, first or last column.
OnRing(g, c) ==
    \/ c[1] = 0 \/ c[1] = Len(g) - 1
    \/ c[2] = 0 \/ c[2] = Len(g[1]) - 1

\* The index pairs of a grid.
Indices(g) == (0..(Shape(g)[1] - 1)) \X (0..(Shape(g)[2] - 1))

FreeCells(g) == { c \in Indices(g) : Cell(g, c[1], c[2]) = FREE }

\* Orthogonal or diagonal neighbours.
Adjacent8(c, d) ==
    /\ c # d
    /\ c[1] - d[1] \in {-1, 0, 1}
    /\ c[2] - d[2] \in {-1, 0, 1}

\* The cells of S reachable from R through neighbours in S.
RECURSIVE Reach(_, _)
Reach(S, R) ==
    LET R2 == R \cup { c \in S : \E r \in R : Adjacent8(c, r) }
    IN  IF R2 = R THEN R ELSE Reach(S, R2)

\* The 8-connected components of S.
RECURSIVE Components(_)
Components(S) ==
    IF S = {} THEN {}
    ELSE LET C == Reach(S, { CHOOSE c \in S : TRUE })
         IN  {C} \cup Components(S \ C)

\* Row-major order of index pairs.
RowMajorBefore(c, d) == c[1] < d[1] \/ (c[1] = d[1] /\ c[2] < d[2])

\* The cell of a component the row-major scan meets first.
FirstCell(C) == CHOOSE c \in C : \A d \in C : d = c \/ RowMajorBefore(c, d)

\* What the decoded probe results say about cell c.
RayMiss(c) ==
    /\ CastId(c[1], c[2]) \in DOMAIN om_build.hit_env
    /\ ~om_build.hit_env[CastId(c[1], c[2])]

RayHit(c) ==
    /\ CastId(c[1], c[2]) \in DOMAIN om_build.hit_env
    /\ om_build.hit_env[CastId(c[1], c[2])]

Overlapped(c) ==
    /\ CastId(c[1], c[2]) \in DOMAIN om_build.hit_obj
    /\ om_build.hit_obj[CastId(c[1], c[2])]

\* The non-edge cells that are free before the islands are pruned: the raycast
\* hit and the overlap is empty, or no raycast frame named the cell.
FreeBeforePruning(g) ==
    { c \in Indices(g) :
        /\ ~OnRing(g, c)
        /\ ~RayMiss(c)
        /\ ~(RayHit(c) /\ Overlapped(c)) }

\* The islands of largest cell count before pruning.
LargestIslands(g) ==
    LET Cs == Components(FreeBeforePruning(g))
    IN  { C \in Cs : \A D \in Cs : Cardinality(D) <= Cardinality(C) }

(***************************************************************************)
(* C1. In every grid built by on_send, once island pruning has run, the    *)
(* free cells are either none or exactly one 8-connected component.        *)
(***************************************************************************)
C1_OneFreeIsland ==
    GridBuilt =>
        LET F == FreeCells(occupancy_map)
        IN  F = {} \/ Reach(F, { CHOOSE c \in F : TRUE }) = F

\* A grid built after generate in which pruning discarded an island and kept one.
C1_Witness ==
    /\ GridBuilt
    /\ om_last = "communicate"
    /\ cell_size > 0
    /\ FreeCells(occupancy_map) # {}
    /\ Cardinality(Components(FreeBeforePruning(occupancy_map))) >= 2

(***************************************************************************)
(* C2. In every grid built by on_send, every cell of the outermost ring is *)
(* out_of_bounds, whatever the probes reported for it.                     *)
(***************************************************************************)
C2_EdgeRingOutOfBounds ==
    GridBuilt =>
        \A c \in Indices(occupancy_map) :
            OnRing(occupancy_map, c) =>
                Cell(occupancy_map, c[1], c[2]) = OUT_OF_BOUNDS

\* A built grid with an edge cell whose probes reported a free cell and an edge
\* cell whose probes reported an occupied one.
C2_Witness ==
    /\ GridBuilt
    /\ \E c \in Indices(occupancy_map) :
          OnRing(occupancy_map, c) /\ RayHit(c) /\ ~Overlapped(c)
    /\ \E c \in Indices(occupancy_map) :
          OnRing(occupancy_map, c) /\ RayHit(c) /\ Overlapped(c)

(***************************************************************************)
(* C3. When two or more free islands tie for the largest cell count, the   *)
(* tied island discovered first in row-major scan order stays free.        *)
(* This is the statement of the claim; the code keeps the tied island      *)
(* discovered last.                                                        *)
(***************************************************************************)
C3_FirstTiedIslandKept ==
    (GridBuilt /\ Cardinality(LargestIslands(occupancy_map)) >= 2) =>
        LET T == LargestIslands(occupancy_map)
            first == CHOOSE C \in T : \A D \in T : D = C \/ RowMajorBefore(FirstCell(C), FirstCell(D))
        IN  FreeCells(occupancy_map) = first

(***************************************************************************)
(* C3 as amended. When two or more free islands tie for the largest cell   *)
(* count, pruning keeps free the tied island discovered last in row-major  *)
(* scan order and reclassifies all the others as out_of_bounds; the grid   *)
(* is a function of the probe results.                                     *)
(***************************************************************************)
C3_LastTiedIslandKept ==
    (GridBuilt /\ Cardinality(LargestIslands(occupancy_map)) >= 2) =>
        LET T == LargestIslands(occupancy_map)
            last == CHOOSE C \in T : \A D \in T : D = C \/ RowMajorBefore(FirstCell(D), FirstCell(C))
        IN  /\ FreeCells(occupancy_map) = last
            /\ \A c \in FreeBeforePruning(occupancy_map) \ last :
                  Cell(occupancy_map, c[1], c[2]) = OUT_OF_BOUNDS

\* A built grid whose probes left two islands of the same, largest size.
C3_Witness ==
    /\ GridBuilt
    /\ Cardinality(LargestIslands(occupancy_map)) >= 2
    /\ FreeCells(occupancy_map) # {}

(***************************************************************************)
(* C5. In a built grid every non-edge cell whose raycast reported no hit   *)
(* is out_of_bounds, every non-edge cell whose raycast hit and whose       *)
(* overlap reported an object is occupied, and every non-edge cell whose   *)
(* raycast hit and whose overlap reported no object is free, or            *)
(* out_of_bounds when it lies in an island that pruning discarded.         *)
(***************************************************************************)
C5_CellClassification ==
    GridBuilt =>
        \A c \in Indices(occupancy_map) :
            ~OnRing(occupancy_map, c) =>
                LET v == Cell(occupancy_map, c[1], c[2])
                IN  /\ RayMiss(c) => v = OUT_OF_BOUNDS
                    /\ (RayHit(c) /\ Overlapped(c)) => v = OCCUPIED
                    /\ (RayHit(c) /\ ~Overlapped(c)) =>
                          \/ v = FREE
                          \/ /\ v = OUT_OF_BOUNDS
                             /\ c \notin FreeCells(occupancy_map)
                             /\ \E C \in Components(FreeBeforePruning(occupancy_map)) :
                                   c \notin C /\ Cardinality(C) >= Cardinality(Reach(FreeBeforePruning(occupancy_map), {c}))

\* A built grid with a non-edge cell of each of the three probe outcomes.
C5_Witness ==
    /\ GridBuilt
    /\ \E c \in Indices(occupancy_map) :
          ~OnRing(occupancy_map, c) /\ RayMiss(c)
    /\ \E c \in Indices(occupancy_map) :
          ~OnRing(occupancy_map, c) /\ RayHit(c) /\ Overlapped(c)
    /\ \E c \in Indices(occupancy_map) :
          ~OnRing(occupancy_map, c) /\ RayHit(c) /\ ~Overlapped(c)
          /\ Cell(occupancy_map, c[1], c[2]) = FREE

(***************************************************************************)
(* C6. Once a grid exists, an on_send call leaves it unchanged whatever    *)
(* frames its batch holds; the grid changes again only through generate.   *)
(***************************************************************************)
C6_BuiltOncePerGeneration ==
    [][(occupancy_map # None /\ om_last' = "communicate") => occupancy_map' = occupancy_map]_vars

\* An on_send call that received a raycast frame while a grid with free cells existed.
C6_Witness ==
    /\ om_last = "communicate"
    /\ om_batch.had_grid
    /\ om_batch.order # << >>
    /\ GridBuilt
    /\ FreeCells(occupancy_map) # {}

\* The identifiers of the queued raycast probes.
QueuedProbeIds == Range(IdsOfType(om_commands, "send_raycast", 1, << >>))

(***************************************************************************)
(* C7. After generate on an initialized add-on the grid is None until a    *)
(* response batch is processed, and the next on_send, which receives the   *)
(* answers to the queued probes, makes a grid of the generated size        *)
(* available: one communicate call separates the two.                      *)
(***************************************************************************)
C7_OneStepLatency ==
    [][/\ (om_last' = "generate" /\ om_initialized) => occupancy_map' = None
       /\ (om_last = "generate" /\ om_initialized /\ om_last' = "communicate") =>
             /\ occupancy_map' # None
             /\ Shape(occupancy_map') = << occupancy_map_size[1] + 1, occupancy_map_size[2] + 1 >>
             /\ QueuedProbeIds # {} => DOMAIN om_build'.hit_env \subseteq QueuedProbeIds
             /\ om_commands' = << >>]_vars

\* The grid built by the on_send that follows a generate call that emitted probes.
C7_Witness ==
    /\ om_last = "communicate"
    /\ ~om_batch.had_grid
    /\ cell_size > 0
    /\ GridBuilt
    /\ DOMAIN om_build.hit_env # {}
    /\ FreeCells(occupancy_map) # {}


\* C13 (as claimed; violated): a call of get_occupancy_position made while no
\* grid exists raises and returns no coordinates.
C13_RaisesWithoutGrid ==
    (om_ret.op = "get_occupancy_position" /\ occupancy_map = None)
        => (om_raised # "none" /\ om_ret.value = << >>)

\* The inverse discretization of a position: the cell a point falls in.
InverseDiscretization(pos) ==
    << FFloor(FDiv(FSub(pos[1], FFromInt(fp_scene_bounds.x_min)), fp_cell_size)),
       FFloor(FDiv(FSub(pos[2], FFromInt(fp_scene_bounds.z_min)), fp_cell_size)) >>

\* C14 (as claimed; violated): for every index (i, j) of a generated grid the
\* inverse discretization of get_occupancy_position(i, j) is (i, j).
C14_RoundTrip ==
    (fp_ret # None /\ fp_shape # None)
        => InverseDiscretization(fp_ret.value) = << fp_ret.i, fp_ret.j >>

\* The commands a generate step adds to the queue.
NewCommands == SubSeq(om_commands', Len(om_commands) + 1, Len(om_commands'))

\* The lattice cell a probe command is aimed at, from its position.
ProbeCell(c) ==
    << (c.x - scene_bounds.x_min) \div cell_size',
       (c.z - scene_bounds.z_min) \div cell_size' >>

\* C16: a generate call on an initialized add-on queues, for every cell (i, j) of
\* the probe lattice, exactly one send_raycast and one send_overlap_sphere, both
\* aimed at the cell and both with the identifier i + j * 10000, and nothing
\* else; the identifiers of distinct cells differ, and the decoding of on_send
\* gives back the cell of every identifier.
C16_OneProbePairPerCell ==
    [][(om_initialized /\ om_last' = "generate" /\ om_ret' = NoPosition) =>
          LET nx == occupancy_map_size'[1]
              nz == occupancy_map_size'[2]
              cells == (0..(nx - 1)) \X (0..(nz - 1))
          IN  /\ \A ij \in cells : \A t \in { "send_raycast", "send_overlap_sphere" } :
                     Cardinality({ k \in DOMAIN NewCommands :
                                     /\ NewCommands[k].type = t
                                     /\ NewCommands[k].id = ij[1] + ij[2] * IdBase
                                     /\ ProbeCell(NewCommands[k]) = ij }) = 1
              /\ Len(NewCommands) = 2 * Cardinality(cells)
              /\ \A ij \in cells : \A kl \in cells :
                     ij # kl => ij[1] + ij[2] * IdBase # kl[1] + kl[2] * IdBase
              /\ \A k \in DOMAIN NewCommands :
                     << DecodeIdx(NewCommands[k].id), DecodeIdz(NewCommands[k].id) >>
                         = ProbeCell(NewCommands[k])]_vars

C16_Witness ==
    /\ om_last = "generate"
    /\ occupancy_map_size[1] >= 3 /\ occupancy_map_size[2] >= 2
    /\ Len(om_commands) = 2 * occupancy_map_size[1] * occupancy_map_size[2]
    /\ \E k \in DOMAIN om_commands :
           om_commands[k].id = CastId(2, 1) /\ om_commands[k].type = "send_raycast"

\* The cells of the probe lattice of the last generate call.
LatticeCells == (0..(occupancy_map_size[1] - 1)) \X (0..(occupancy_map_size[2] - 1))

\* The batch the grid was built from lacks the raycast or the overlap of a cell.
ProbeResultMissing ==
    \E ij \in LatticeCells :
        \/ (ij[1] + ij[2] * IdBase) \notin DOMAIN om_build.hit_env
        \/ (ij[1] + ij[2] * IdBase) \notin DOMAIN om_build.hit_obj

\* C17 (as claimed; violated): when the batch processed after generate lacks the
\* result of an emitted probe, on_send completes without raising.
C17_MissingResultTolerated ==
    (om_last = "communicate" /\ ~om_batch.had_grid /\ ProbeResultMissing)
        => om_raised = "none"

\* C18: pruning keeps free one island of largest cell count among the islands
\* that were free before it, turns every cell of every other island into
\* out_of_bounds, and leaves the cells that were not free as they were
\* classified: out_of_bounds on the edge ring and where the raycast missed,
\* occupied where the raycast hit and the overlap found an object.
C18_PruningKeepsLargest ==
    GridBuilt =>
        LET g == occupancy_map
            Cs == Components(FreeBeforePruning(g))
            F == FreeCells(g)
        IN  /\ Cs # {} => (F \in Cs /\ \A D \in Cs : Cardinality(D) <= Cardinality(F))
            /\ Cs = {} => F = {}
            /\ \A D \in Cs \ { F } : \A c \in D : Cell(g, c[1], c[2]) = OUT_OF_BOUNDS
            /\ \A c \in Indices(g) \ FreeBeforePruning(g) :
                   Cell(g, c[1], c[2]) =
                       IF OnRing(g, c) \/ RayMiss(c) THEN OUT_OF_BOUNDS ELSE OCCUPIED

\* A built grid with a smaller island that was discarded, a larger one that was
\* kept, and an occupied cell.
C18_Witness ==
    /\ GridBuilt
    /\ \E C, D \in Components(FreeBeforePruning(occupancy_map)) :
           /\ Cardinality(C) < Cardinality(D)
           /\ FreeCells(occupancy_map) = D
    /\ \E c \in Indices(occupancy_map) :
           ~OnRing(occupancy_map, c) /\ Cell(occupancy_map, c[1], c[2]) = OCCUPIED

\* Scene bounds without usable area.
ZeroArea(sb) == sb.x_min >= sb.x_max \/ sb.z_min >= sb.z_max

\* C24: with scene bounds of zero usable area, generate queues no probe and
\* records a lattice with no cell, and the grid that the next on_send builds
\* holds out_of_bounds cells only.
C24_ZeroAreaAllOutOfBounds ==
    [][/\ (om_initialized /\ om_last' = "generate" /\ om_ret' = NoPosition
           /\ ZeroArea(scene_bounds)) =>
             /\ NewCommands = << >>
             /\ occupancy_map_size'[1] * occupancy_map_size'[2] = 0
       /\ (om_last = "generate" /\ om_initialized /\ om_last' = "communicate"
           /\ ZeroArea(scene_bounds) /\ om_raised' = "none") =>
             /\ occupancy_map' # None
             /\ \A c \in Indices(occupancy_map') :
                   Cell(occupancy_map', c[1], c[2]) = OUT_OF_BOUNDS]_vars

\* A grid of several cells built after generate for bounds with an extent along
\* x and none along z.
C24_Witness ==
    /\ om_last = "communicate"
    /\ ~om_batch.had_grid
    /\ cell_size > 0
    /\ GridBuilt
    /\ ZeroArea(scene_bounds)
    /\ Shape(occupancy_map)[1] >= 3

\* C29 (as claimed; violated): as long as no generate call has taken effect
\* (the cell size is still the -1 of the constructor) there is no grid, so show
\* raises; this includes the state after the first response batch.
C29_NoGridWithoutGenerate ==
    cell_size = -1 => (occupancy_map = None /\ ShowRaises)

\* C30: a generate call on an add-on that is not initialized queues no command,
\* leaves the grid, the cell size, the recorded grid size and the scene bounds
\* as they were, and does not raise.
C30_GenerateBeforeInitIsNoOp ==
    [][(~om_initialized /\ om_last' = "generate" /\ om_ret' = NoPosition) =>
          /\ om_commands' = om_commands
          /\ occupancy_map' = occupancy_map
          /\ cell_size' = cell_size
          /\ occupancy_map_size' = occupancy_map_size
          /\ scene_bounds' = scene_bounds
          /\ om_initialized' = om_initialized
          /\ om_raised' = "none"]_vars

\* generate was called on an add-on that is not initialized.
C30_Witness ==
    /\ om_last = "generate"
    /\ ~om_initialized
    /\ om_commands = << >>
    /\ cell_size = -1

(***************************************************************************)
(* Vocabulary of the properties of the arranger.                           *)
(***************************************************************************)
\* The cells of the sub-grid within the disc of a placement.
DiscOf(shape, p) ==
    { c \in (0..(shape[1] - 1)) \X (0..(shape[2] - 1)) :
        (c[1] - p.ix) * (c[1] - p.ix) + (c[2] - p.iz) * (c[2] - p.iz) <= p.sma * p.sma }

\* A float length read to the hundredth, the unit of the data: the whole
\* number of hundredths nearest to it.
Hundredths(x) ==
    IF x.m = << >> THEN 0
    ELSE LET n == LMulSmall(x.m, 100)
         IN  x.s * LToInt(IF x.e >= 0 THEN LShl(n, x.e)
                          ELSE LShr(LAdd(LShl(n, 1), LShl(<< 1 >>, -x.e)), 1 - x.e))

\* The five footprint points of a model at a position are inside a region,
\* boundaries included, lengths read to the hundredth.
FootprintInside(name, position, region) ==
    \E at \in { << Hundredths(position.x), Hundredths(position.z) >> } :
        \A side \in { "left", "right", "front", "back", "center" } :
            LET x == ModelRecords[name][side].x + at[1]
                z == ModelRecords[name][side].z + at[2]
            IN  region.x_min <= x /\ x <= region.x_max /\ region.z_min <= z /\ z <= region.z_max

\* No model of a category of the catalog has its footprint inside the region.
NoModelFits(category, position, region) ==
    \A k \in DOMAIN MODEL_CATEGORIES[category] :
        ~FootprintInside(MODEL_CATEGORIES[category][k], position, region)

\* The step is a call of get_vertical_arrangement, by the user or by
\* get_lateral_arrangement.
VerticalCalled ==
    \/ pg_pc = "idle" /\ pg_last' = "get_vertical_arrangement"
    \/ pg_pc = "lat_try"

\* The call of get_vertical_arrangement of the step is for a category of the
\* catalog and a region of the scene, and no model of the category fits there.
VerticalCalledWithoutFit ==
    /\ VerticalCalled
    /\ pg_scene_bounds # None
    /\ pg_hist'.vert.category \in DOMAIN MODEL_CATEGORIES
    /\ pg_hist'.vert.region + 1 \in DOMAIN pg_scene_bounds.rooms
    /\ NoModelFits(pg_hist'.vert.category, pg_hist'.vert.position,
                   pg_scene_bounds.rooms[pg_hist'.vert.region + 1])

(***************************************************************************)
(* Properties of the arranger.                                             *)
(***************************************************************************)
\* C4 (as claimed; violated): within one call of the packing engine the discs
\* of any two placements share no cell of the sub-grid.
C4_DiscsDisjoint ==
    pg_pack # None =>
        \A i, j \in DOMAIN pg_pack.placements :
            i < j => DiscOf(pg_pack.shape, pg_pack.placements[i])
                       \cap DiscOf(pg_pack.shape, pg_pack.placements[j]) = {}

\* C8: a call of get_vertical_arrangement for a category of the catalog none of
\* whose models has its five footprint points inside the target region returns
\* None, leaves the command list of the add-on unchanged and does not raise.
C8_NoFitReturnsNone ==
    [][VerticalCalledWithoutFit =>
          /\ pg_ret' = [op |-> "get_vertical_arrangement", value |-> "None"]
          /\ pg_commands' = pg_commands
          /\ pg_raised' = "none"]_vars

\* A vertical call made by a lateral call returned None for want of a model that
\* fits, with commands of earlier placements in the list.
C8_Witness ==
    /\ pg_pc = "lat_ret"
    /\ pg_ret = [op |-> "get_vertical_arrangement", value |-> "None"]
    /\ pg_commands # << >>
    /\ MODEL_CATEGORIES[pg_hist.vert.category] # << >>
    /\ NoModelFits(pg_hist.vert.category, pg_hist.vert.position,
                   pg_scene_bounds.rooms[pg_hist.vert.region + 1])

\* C9: within one call of get_lateral_arrangement a category other than
\* "kitchen_counter" that was placed as a root is not attempted again (so it is
\* placed at most once), and for a room type with exactly one such category
\* nothing is attempted after it was placed: the call is at the head of its
\* loop, about to return, or it has returned.
C9_OneShotPlacedOnce ==
    LET a == pg_hist.lat.attempts
    IN  pg_hist.lat.result # "none" =>
          LET configured == ROOM_TYPE_LATERAL_SPATIAL_RELATIONS[pg_hist.lat.room_type]
          IN  /\ \A i, j \in DOMAIN a :
                    (i < j /\ a[i].record # "None" /\ a[i].category # "kitchen_counter")
                        => a[j].category # a[i].category
              /\ ( /\ Len(configured) = 1
                   /\ configured[1] # "kitchen_counter"
                   /\ \E i \in DOMAIN a : a[i].record # "None" )
                   => /\ Len(a) = 1
                      /\ pg_pc \in { "lat_iter", "idle" }
                      /\ pg_hist.lat.result = "returned" \/ pg_pc = "lat_iter"

\* A lateral call for the room type with the single one-shot category returned
\* after it placed that category.
C9_Witness ==
    /\ pg_hist.lat.result = "returned"
    /\ pg_hist.lat.room_type = "pantry"
    /\ Len(pg_hist.lat.attempts) = 1
    /\ pg_hist.lat.attempts[1].record = "fridge"

\* C10 (as claimed; violated): a call of get_lateral_arrangement for a region of
\* the scene (the scene bounds exist and room_id is the index of one of their
\* rooms) does not end by an exception: it is running or it returned.
C10_LateralReturnsNormally ==
    (/\ pg_hist.lat.result # "none"
     /\ pg_scene_bounds # None
     /\ pg_hist.lat.room_id + 1 \in DOMAIN pg_scene_bounds.rooms) =>
        pg_hist.lat.result \in { "running", "returned" }

\* The number of cells of the sub-grid of the packing call under way.
PackCells == pg_pack.shape[1] * pg_pack.shape[2]

\* The cells of a sub-grid that the loop of the packing engine does not exclude.
ScannedCells(shape) ==
    { c \in (0..(shape[1] - 1)) \X (0..(shape[2] - 1)) : ~ExcludedEdge(shape, c[1], c[2]) }

\* C11: a call of the packing engine with density 1.0 makes no placement while
\* it runs, and returns an empty command list and an empty category list
\* without raising.
C11_FullDensityPlacesNothing ==
    [][(pg_pack # None /\ pg_pack.density >= 100) =>
          /\ pg_pack.placements = << >> /\ pg_pack.commands = << >>
          /\ pg_raised' = "none"
          /\ (pg_pack' = None /\ pg_pack.caller = "top") =>
                /\ pg_ret'.op = "_get_rectangular_arrangement"
                /\ pg_ret'.value.commands = << >>
                /\ pg_ret'.value.categories = {}]_vars

\* A direct call with density 1.0 reached the end of its loop over a sub-grid
\* with cells that are not excluded and with candidate models.
C11_Witness ==
    /\ pg_pack # None
    /\ pg_pack.caller = "top"
    /\ pg_pack.density >= 100
    /\ pg_pack.k > PackCells
    /\ ScannedCells(pg_pack.shape) # {}
    /\ pg_pack.model_sizes # << >>

\* C12 (as claimed; violated): a call of the packing engine does not raise
\* whatever its category list is; with no candidate model it returns.
C12_NeverRaises ==
    ~(pg_last = "_get_rectangular_arrangement" /\ pg_raised # "none")

\* C19 (as claimed; violated): no placement of the packing engine is centred on
\* a cell of the first or last row or of the first or last column of its
\* sub-grid.
C19_NoPlacementOnOuterRing ==
    pg_pack # None =>
        \A k \in DOMAIN pg_pack.placements :
            LET p == pg_pack.placements[k]
            IN  /\ p.ix # 0 /\ p.ix # pg_pack.shape[1] - 1
                /\ p.iz # 0 /\ p.iz # pg_pack.shape[2] - 1

\* The cells occupied when placement k is made: the discs of the placements
\* made before it.
OccupiedBefore(k) ==
    UNION { DiscOf(pg_pack.shape, pg_pack.placements[h]) : h \in 1..(k - 1) }

\* A radius fits at placement k: its centred disc stays within the sub-grid and
\* covers no occupied cell.
RadiusFits(k, r) ==
    LET p == pg_pack.placements[k]
    IN  /\ p.ix - r >= 0 /\ p.ix + r < pg_pack.shape[1]
        /\ p.iz - r >= 0 /\ p.iz + r < pg_pack.shape[2]
        /\ DiscOf(pg_pack.shape, [ix |-> p.ix, iz |-> p.iz, sma |-> r])
               \cap OccupiedBefore(k) = {}

\* C20 (as claimed; violated): the radius chosen for a placement fits, and it is
\* the last radius that fits when the candidate radii are scanned from the
\* smallest to the largest up to the first that does not fit.
C20_LastFittingRadiusChosen ==
    pg_pack # None =>
        \A k \in DOMAIN pg_pack.placements :
            LET p == pg_pack.placements[k]
                cand == Range(pg_pack.model_cell_sizes)
                upto(r) == { q \in cand : q <= r }
            IN  /\ RadiusFits(k, p.sma)
                /\ \A q \in upto(p.sma) : RadiusFits(k, q)
                /\ \A r \in cand : (\A q \in upto(r) : RadiusFits(k, q)) => r <= p.sma

\* The radius in cells of a model, as used to build the candidate radii.
ItemRadius(model_name, cs) == IntQuotient(SemiMajorAxis(model_name), cs) + 1

\* C21 (as claimed; violated): every item placed by the packing engine has a
\* radius in cells not greater than the radius chosen for its cell.
C21_ItemWithinChosenRadius ==
    pg_pack # None =>
        \A k \in DOMAIN pg_pack.placements :
            ItemRadius(pg_pack.placements[k].model_name, pg_pack.cell_size)
                <= pg_pack.placements[k].sma

\* The step ends a call of get_vertical_arrangement by returning a record.
VerticalReturnsRecord ==
    /\ pg_ret' # pg_ret
    /\ pg_ret'.op = "get_vertical_arrangement"
    /\ pg_ret'.value # "None"

\* C22: the record returned by get_vertical_arrangement is a model of the
\* requested category whose left, right, front, back and center points, offset
\* by the root position, are inside the bounds of the target region, boundaries
\* included.
C22_ReturnedRecordFits ==
    [][VerticalReturnsRecord =>
          /\ pg_ret'.value \in Range(MODEL_CATEGORIES[pg_hist'.vert.category])
          /\ FootprintInside(pg_ret'.value, pg_hist'.vert.position,
                             pg_scene_bounds.rooms[pg_hist'.vert.region + 1])]_vars

\* A record was returned for a position where another model of the category does
\* not fit, the returned one touching the boundary of the region.
C22_Witness ==
    /\ pg_ret.op = "get_vertical_arrangement"
    /\ pg_ret.value # "None"
    /\ pg_scene_bounds # None
    /\ \E k \in DOMAIN MODEL_CATEGORIES[pg_hist.vert.category] :
          ~FootprintInside(MODEL_CATEGORIES[pg_hist.vert.category][k], pg_hist.vert.position,
                           pg_scene_bounds.rooms[pg_hist.vert.region + 1])
    /\ ModelRecords[pg_ret.value].left.x + Hundredths(pg_hist.vert.position.x)
           = pg_scene_bounds.rooms[pg_hist.vert.region + 1].x_min

\* The commands a step appends to the command list of the add-on.
EmittedBatch == SubSeq(pg_commands', Len(pg_commands) + 1, Len(pg_commands'))

\* The place of a command type in the order of a vertical batch.
BatchRank(type) ==
    CASE type = "add_object" -> 1
      [] type = "parent_object_to_object" -> 2
      [] type = "rotate_object_by" -> 3
      [] type = "unparent_object" -> 4
      [] OTHER -> 0

\* The number of commands of a type with an object id in a batch.
CountOf(batch, type, id) ==
    Cardinality({ k \in DOMAIN batch : batch[k].type = type /\ batch[k].id = id })

\* C23: in the batch emitted by a successful get_vertical_arrangement every
\* added object other than the root is parented to the root exactly once and
\* unparented exactly once, the root is neither parented nor unparented, there
\* is exactly one rotation and it targets the root, and the adds come first,
\* then the parent commands, then the rotation, then the unparent commands.
C23_RotationBatchShape ==
    [][VerticalReturnsRecord =>
          LET batch == EmittedBatch
              root == pg_vert.root_object_id
              added == { batch[k].id : k \in { h \in DOMAIN batch : batch[h].type = "add_object" } }
          IN  /\ root \in added
              /\ \A id \in added \ { root } :
                    /\ CountOf(batch, "parent_object_to_object", id) = 1
                    /\ CountOf(batch, "unparent_object", id) = 1
              /\ \A k \in DOMAIN batch :
                    /\ BatchRank(batch[k].type) # 0
                    /\ batch[k].type = "parent_object_to_object"
                          => batch[k].parent_id = root /\ batch[k].id \in added \ { root }
                    /\ batch[k].type = "unparent_object" => batch[k].id \in added \ { root }
                    /\ batch[k].type = "rotate_object_by" => batch[k].id = root
              /\ Cardinality({ k \in DOMAIN batch : batch[k].type = "rotate_object_by" }) = 1
              /\ \A i, j \in DOMAIN batch :
                    i < j => BatchRank(batch[i].type) <= BatchRank(batch[j].type)]_vars

\* A vertical call returned a record after adding at least two objects on or in
\* its root: its batch ends with their unparent commands.
C23_Witness ==
    /\ pg_ret.op = "get_vertical_arrangement"
    /\ pg_ret.value # "None"
    /\ pg_last = "get_vertical_arrangement"
    /\ Cardinality({ k \in DOMAIN pg_commands : pg_commands[k].type = "unparent_object" }) >= 2
    /\ pg_commands[Len(pg_commands)].type = "unparent_object"

\* C26 (as claimed; violated): every call of get_vertical_arrangement made by
\* get_lateral_arrangement(wall, room_type, room_id) tests the fit against
\* region room_id, and every root item it places has its five footprint points
\* inside the bounds of region room_id.
C26_FitTestedAgainstRoom ==
    [][/\ pg_pc = "lat_try" => pg_hist'.vert.region = pg_hist'.lat.room_id
       /\ (VerticalReturnsRecord /\ pg_vert.caller = "lateral") =>
             FootprintInside(pg_ret'.value, pg_hist'.vert.position,
                             pg_scene_bounds.rooms[pg_hist'.lat.room_id + 1])]_vars

\* The distance between a wall and the starting anchor of a lateral call.
AnchorInset == WALL_DEPTH + WallClearance

\* C27 (as claimed; violated): the starting anchor of get_lateral_arrangement is
\* inset from the wall of its argument: from z_max for north, from z_min for
\* south, from x_min for west and from x_max for east, lengths read to the
\* hundredth.
C27_AnchorInsetFromNamedWall ==
    [][(pg_pc = "idle" /\ pg_last' = "get_lateral_arrangement" /\ pg_scene_bounds # None) =>
          LET room == pg_scene_bounds.rooms[pg_hist'.lat.room_id + 1]
              wall == pg_hist'.lat.wall
              p == pg_lat'.position
          IN  /\ wall = "north" => Hundredths(p.z) = room.z_max - AnchorInset
              /\ wall = "south" => Hundredths(p.z) = room.z_min + AnchorInset
              /\ wall = "west" => Hundredths(p.x) = room.x_min + AnchorInset
              /\ wall = "east" => Hundredths(p.x) = room.x_max - AnchorInset]_vars

\* A point of the plane is inside the rectangle of a size centred on a centre,
\* boundaries included; lengths are in whole hundredths, doubled to stay in
\* the integers.
InsideRectangle(x, z, size, center) ==
    /\ 2 * center[1] - size[1] <= 2 * x /\ 2 * x <= 2 * center[1] + size[1]
    /\ 2 * center[2] - size[2] <= 2 * z /\ 2 * z <= 2 * center[2] + size[2]

\* C28 (as claimed; violated): every object added by the packing engine is at a
\* position inside the rectangle of the size the caller gave, centred on the
\* centre the caller gave, lengths read to the hundredth.
C28_PlacementsInsideGivenRectangle ==
    pg_pack # None =>
        \E size \in { << Hundredths(pg_pack.given_size[1]), Hundredths(pg_pack.given_size[2]) >> },
           center \in { << Hundredths(pg_pack.center.x), Hundredths(pg_pack.center.z) >> } :
            \A k \in DOMAIN pg_pack.commands :
                InsideRectangle(Hundredths(pg_pack.commands[k].x),
                                Hundredths(pg_pack.commands[k].z), size, center)

(***************************************************************************)
(* Properties of the container manager.                                    *)
(***************************************************************************)
\* A collision of the step that is a containment: its trigger is registered
\* and the object entered or stays.
Qualifying(c) ==
    c.trigger_id \in DOMAIN cm_trigger_ids /\ c.state \in { "enter", "stay" }

EventOf(c) ==
    [container_id |-> c.collidee_id, object_id |-> c.collider_id,
     tag |-> cm_tags[c.trigger_id]]

\* C15: after on_send the events are exactly those of the step's collisions
\* with a registered trigger and the state enter or stay: each event of a
\* container comes from such a collision on that container, each such collision
\* has its event, so no event of an earlier step is left and an exit collision
\* gives none.
C15_EventsOfThisStep ==
    cm_last = "communicate" =>
        /\ \A k \in DOMAIN cm_events : \A e \in Range(cm_events[k]) :
               /\ e.container_id = k
               /\ \E c \in Range(cm_collisions) : Qualifying(c) /\ e = EventOf(c)
        /\ \A c \in Range(cm_collisions) :
               Qualifying(c) =>
                   /\ c.collidee_id \in DOMAIN cm_events
                   /\ EventOf(c) \in Range(cm_events[c.collidee_id])

C15_Witness ==
    /\ cm_last = "communicate"
    /\ \E a, b \in Range(cm_collisions) :
           /\ Qualifying(a)
           /\ b.state = "exit" /\ b.trigger_id \in DOMAIN cm_trigger_ids
           /\ b.collider_id # a.collider_id
           /\ DOMAIN cm_events = { a.collidee_id }
           /\ Len(cm_events[a.collidee_id]) = 1

\* C25 (as claimed; violated): after on_send the event list of a container holds
\* at most one event per contained object.
C25_OneEventPerObject ==
    cm_last = "communicate" =>
        \A k \in DOMAIN cm_events : \A i, j \in DOMAIN cm_events[k] :
            i # j => cm_events[k][i].object_id # cm_events[k][j].object_id
=============================================================================
